---- MODULE Spec2Model ----
(***************************************************************************)
(* Model of the certificate-lifecycle engine of cisco-ssl-dashboard:       *)
(*   - the static operations of SSHClient (backend/src/ssh-client.ts):     *)
(*     testConnection, executeCommand, executeCommandWithStream;           *)
(*   - ACMEClient (backend/src/acme-client.ts), its methods one at a time  *)
(*     and two issuance flows interleaved on the exported instance;        *)
(*   - the certificate inspector and the CertificateInfo it builds;        *)
(*   - one SSHClient instance (connect, disconnect, isClientConnected).    *)
(*                                                                         *)
(* Text is a sequence of fragments (short strings).  Every marker the code *)
(* searches for is built from fragments, the prompt token "admin:" from    *)
(* the two fragments "adm" and "in:", so that a chunk boundary can fall    *)
(* inside it.  String.includes is contiguous-subsequence search.           *)
(*                                                                         *)
(* Time is counted in ticks of the 5 s grace period; a timer is the tick   *)
(* at which it is due, or Off.                                             *)
(***************************************************************************)
EXTENDS Integers, Sequences, FiniteSets, TLC

VARIABLES
    \* ---- one invocation of a static SSHClient operation ----
    op,               \* which static operation was invoked
    command,          \* params.command (empty for testConnection)
    commandTimeout,   \* params.timeout in ms
    phase,            \* "start": promise executor not yet run; "running"
    connState,        \* transport: "idle", "connecting", "ready", "errored", "closed"
    shell,            \* shell channel: "none", "requested", "open", "closed", "failed"
    resolved,         \* the closure's guard flag
    endCalls,         \* number of conn.end() calls
    result,           \* what the returned promise settled with
    commandOutput,    \* running buffer (dataReceived in testConnection)
    received,         \* history: every chunk delivered, in arrival order
    written,          \* history: everything written to the shell channel
    now,              \* current tick
    timeout,          \* overall per-operation timer
    graceTimer,       \* the 5 s timer that writes to the shell
    shellTimeout,     \* testConnection's 60 s prompt-wait timer
    noResponseTimer,  \* post-send no-response timer
    onDataCalls,      \* history: chunks the onData observer was called with
    executed,         \* history: the remote has executed the written command
    \* ---- one ACMEClient instance, its collaborators and the ACME server ----
    isStaging,        \* constructor argument (the deployment-wide switch)
    client,           \* this.client: 0 (null) or the index of a library client
    clients,          \* every acme.Client object constructed so far
    store,            \* persistence collaborator: saved account per domain
    call,             \* the method invocation in progress
    nCalls,           \* number of method invocations so far
    elapsed,          \* ticks since the current deadline race began
    abandoned,        \* requests that lost their race and are still in flight
    sent,             \* history: requests issued to the ACME server
    accountOk,        \* history: a createAccount or loadAccount has succeeded
    lastAuthz,        \* history: authorizations the current call received
    outcome,          \* how the last finished call settled
    lastLoad,         \* history: the last loadAccount call (domain asked for,
                      \*   whether loading the account threw)
    \* ---- calls of ACMEClient.getDNSRecordValue ----
    dnsLog,           \* history: argument and return value of every call
    \* ---- one invocation of ACMEClient.waitForOrderCompletion ----
    waitPc,           \* position: "idle", "delay", "waitValid", "refetch",
                      \*   "diagOrder", "diagAuthz", "done"
    maxWaitTime,      \* the maxWaitTime argument in ms
    waitNow,          \* ticks of 2 s since the call
    waitError,        \* error caught by the outer catch ("" when none)
    diagError,        \* error of a failed diagnostic call ("" when none)
    waitOutcome,      \* how the call settled
    \* ---- one invocation of getCertificateInfoWithFallback ----
    letsencryptStaging, \* process.env.LETSENCRYPT_STAGING
    files,            \* certificate.pem of each environment subdirectory
    inspPc,           \* position: "idle", "probing", "done"
    portIdx,          \* index in ports of the probe in progress
    probeIdle,        \* ticks of 5 s the probe's socket has been idle
    probed,           \* history: ports probed, in order
    yielded,          \* history: how each probe ended
    readDirs,         \* history: environment subdirectories read, in order
    inspResult,       \* how the call settled
    \* ---- issuance flows of the callers of the module-level acmeClient ----
    flowPc,           \* position of each flow
    flowClient,       \* acmeClient.client: the flow whose account key the
                      \*   library client was built with, "" while it is null
    flowSent,         \* history: the requests each flow's calls have sent
    \* ---- one CertificateInfo being built ----
    infoNow,          \* new Date() at the time of the call, in ms
    infoValidFrom,    \* the certificate's notBefore, in ms
    infoValidTo,      \* the certificate's notAfter, in ms
    certInfo,         \* the CertificateInfo built (its two computed fields)
    \* ---- one SSHClient instance ----
    sshClient,        \* this.client: 0 (null) or the index of a transport
    isConnected,      \* this.isConnected
    transports        \* every ssh2 Client created by connect(), in order

sshVars == <<op, command, commandTimeout, phase, connState, shell, resolved,
             endCalls, result, commandOutput, received, written, now,
             timeout, graceTimer, shellTimeout, noResponseTimer>>

acmeVars == <<isStaging, client, clients, store, call, nCalls, elapsed,
              abandoned, sent, accountOk, lastAuthz, outcome>>

dnsVars == <<dnsLog>>

waitVars == <<waitPc, maxWaitTime, waitNow, waitError, diagError, waitOutcome>>

inspVars == <<letsencryptStaging, files, inspPc, portIdx, probeIdle, probed,
              yielded, readDirs, inspResult>>

flowVars == <<flowPc, flowClient, flowSent>>

infoVars == <<infoNow, infoValidFrom, infoValidTo, certInfo>>

instVars == <<sshClient, isConnected, transports>>

loadVars == <<lastLoad>>

observerVars == <<onDataCalls>>

remoteVars == <<executed>>

vars == <<sshVars, observerVars, remoteVars, acmeVars, loadVars, dnsVars, waitVars, inspVars,
          flowVars, infoVars, instVars>>

\* What an action of one component leaves alone
nonShellVars == <<remoteVars, acmeVars, loadVars, dnsVars, waitVars, inspVars, flowVars, infoVars, instVars>>
nonSshVars == <<nonShellVars, observerVars>>
nonClientVars == <<sshVars, observerVars, remoteVars, dnsVars, waitVars, inspVars, flowVars, infoVars, instVars>>
nonAcmeVars == <<nonClientVars, loadVars>>
nonDnsVars == <<sshVars, observerVars, remoteVars, acmeVars, loadVars, waitVars, inspVars,
                flowVars, infoVars, instVars>>
nonWaitVars == <<sshVars, observerVars, remoteVars, acmeVars, loadVars, dnsVars, inspVars,
                 flowVars, infoVars, instVars>>
nonInspVars == <<sshVars, observerVars, remoteVars, acmeVars, loadVars, dnsVars, waitVars,
                 flowVars, infoVars, instVars>>
nonFlowVars == <<sshVars, observerVars, remoteVars, acmeVars, loadVars, dnsVars, waitVars,
                 inspVars, infoVars, instVars>>
nonInfoVars == <<sshVars, observerVars, remoteVars, acmeVars, loadVars, dnsVars, waitVars,
                 inspVars, flowVars, instVars>>
nonInstVars == <<sshVars, observerVars, remoteVars, acmeVars, loadVars, dnsVars, waitVars,
                 inspVars, flowVars, infoVars>>

----------------------------------------------------------------------------
(* Bounds *)

\* Transports one SSHClient instance creates (calls of connect).
MaxTransports == 3

\* Days spanned by the times a certificate's validity and the clock take
MaxDays == 2

\* Chunks delivered on the shell channel (both streams) per invocation.
MaxChunks == 2

\* Length of the domain list passed to requestCertificate.
MaxDomains == 2

\* Method invocations on one ACMEClient instance.
MaxCalls == 2

\* Characters of a key authorization passed to getDNSRecordValue.
MaxKeyLen == 3

\* Calls of getDNSRecordValue.
MaxDnsCalls == 2

----------------------------------------------------------------------------
(* Text *)

\* String.prototype.includes
Includes(s, t) == \E i \in 0..(Len(s) - Len(t)) : SubSeq(s, i + 1, i + Len(t)) = t

IsPrefix(p, s) == Len(p) <= Len(s) /\ SubSeq(s, 1, Len(p)) = p

Max(a, b) == IF a >= b THEN a ELSE b

PromptToken == <<"adm", "in:">>
StartedMarker == <<"[STARTED]">>
FailedMarker == <<"[FAILED]">>
ErrorMarker == <<"ERROR">>
ServiceRestartText == <<"service restart">>
CiscoTomcatText == <<"Cisco Tomcat">>
LineTerminator == <<"\r\n">>

CmdRestartTomcat == <<"utils ", "service restart", " ", "Cisco Tomcat">>
CmdShow == <<"show ", "status">>

Commands == {CmdRestartTomcat, CmdShow}

\* What the remote may deliver on the primary stream.  For a restart: the
\* service markers and the prompt; otherwise the prompt, whole or cut in two
\* by a chunk boundary, and the echo of the command (a banner line for
\* testConnection) ...
StdoutChunks(cmd) ==
    IF Includes(cmd, ServiceRestartText)
    THEN { PromptToken, <<"[STARTED]", "\n", "adm", "in:">>, StartedMarker, FailedMarker }
    ELSE { PromptToken, <<"adm">>, <<"in:">>,
           IF cmd = <<>> THEN <<"Welcome">> ELSE cmd }
\* ... and on the error stream.
StderrChunks == { ErrorMarker }

----------------------------------------------------------------------------
(* Timers, in ms as the source states them *)

GraceMs == 5000
TestOverallTimeoutMs == 45000
PromptWaitMs == 60000
DefaultCommandTimeoutMs == 60000
SafetyBufferMs == 10000
MinRemainingMs == 30000
ReadyTimeoutMs == 20000

TickMs == GraceMs
Ticks(ms) == ms \div TickMs
Off == -1

CommandTimeouts == {20000, DefaultCommandTimeoutMs}

\* const remainingTime = Math.max(commandTimeout - 10000, 30000)
RemainingTime(ct) == Max(ct - SafetyBufferMs, MinRemainingMs)

Due(t) == t # Off /\ now >= t

----------------------------------------------------------------------------
(* Results *)

NoResult ==
    [settled |-> FALSE, success |-> FALSE, error |-> "", hasOutput |-> FALSE,
     output |-> <<>>, hasMessage |-> FALSE, message |-> <<>>]

\* { success: true, output }
Success(out) ==
    [settled |-> TRUE, success |-> TRUE, error |-> "", hasOutput |-> TRUE,
     output |-> out, hasMessage |-> FALSE, message |-> <<>>]

\* { success: false, error, output }
Failure(err, out) ==
    [settled |-> TRUE, success |-> FALSE, error |-> err, hasOutput |-> TRUE,
     output |-> out, hasMessage |-> FALSE, message |-> <<>>]

\* { success: false, error }
FailureNoOutput(err) ==
    [settled |-> TRUE, success |-> FALSE, error |-> err, hasOutput |-> FALSE,
     output |-> <<>>, hasMessage |-> FALSE, message |-> <<>>]

\* testConnection: { success: true, message }
TestSuccess ==
    [settled |-> TRUE, success |-> TRUE, error |-> "", hasOutput |-> FALSE,
     output |-> <<>>, hasMessage |-> TRUE,
     message |-> <<"Successfully connected to Cisco VOS CLI">>]

\* testConnection: { success: false, error, message: dataReceived.substring(0, 500) }
TestFailureMessage(err, msg) ==
    [settled |-> TRUE, success |-> FALSE, error |-> err, hasOutput |-> FALSE,
     output |-> <<>>, hasMessage |-> TRUE, message |-> msg]

----------------------------------------------------------------------------
(* The closure helpers of each static operation *)

\* Mutant of Cleanup: the teardown is not guarded by the resolved flag
CleanupUnguarded ==
    /\ resolved' = TRUE
    /\ endCalls' = endCalls + 1

\* const cleanup = () => { if (!resolved) { resolved = true; conn.end(); } }
Cleanup ==
    /\ resolved' = TRUE
    /\ endCalls' = IF resolved THEN endCalls ELSE endCalls + 1

\* resolve(result): a promise settles with the first value only
Resolve(r) == result' = IF result.settled THEN result ELSE r

\* const resolveResult = (result) => { cleanup(); resolve(result); }
ResolveResult(r) == Cleanup /\ Resolve(r)

----------------------------------------------------------------------------
(* Completion detection *)

\* command.includes('service restart') && command.includes('Cisco Tomcat')
IsServiceRestart(cmd) ==
    Includes(cmd, ServiceRestartText) /\ Includes(cmd, CiscoTomcatText)

\* Mutant of Completion: the failure markers are looked at before the
\* success marker
CompletionFailureFirst(cmd, buf, chunk) ==
    IF Includes(cmd, ServiceRestartText) /\ Includes(cmd, CiscoTomcatText)
    THEN IF Includes(buf, FailedMarker) \/ Includes(buf, ErrorMarker)
         THEN "failure"
         ELSE IF Includes(buf, StartedMarker) /\ Includes(chunk, PromptToken)
              THEN "success"
              ELSE "none"
    ELSE IF Includes(chunk, PromptToken) /\ Includes(buf, cmd)
         THEN "success"
         ELSE "none"

\* The data handler's decision for one primary-stream chunk, buf being the
\* buffer with the chunk already appended.
Completion(cmd, buf, chunk) ==
    IF IsServiceRestart(cmd)
    THEN IF Includes(buf, StartedMarker) /\ Includes(chunk, PromptToken)
         THEN "success"
         ELSE IF Includes(buf, FailedMarker) \/ Includes(buf, ErrorMarker)
              THEN "failure"
              ELSE "none"
    ELSE IF Includes(chunk, PromptToken) /\ Includes(buf, cmd)
         THEN "success"
         ELSE "none"

----------------------------------------------------------------------------
(* Results of the individual exit paths; the three operations differ in     *)
(* whether they put the buffer into the result.                            *)

Ops == {"testConnection", "executeCommand", "executeCommandWithStream"}

MessageLimit == 500

\* String.prototype.substring(0, n)
Substring(s, n) == SubSeq(s, 1, IF Len(s) < n THEN Len(s) ELSE n)

ConnectThrowsResult ==
    IF op = "executeCommandWithStream"
    THEN Failure("Failed to initiate connection", <<>>)
    ELSE FailureNoOutput("Failed to initiate connection")

ShellFailResult ==
    IF op = "executeCommandWithStream"
    THEN Failure("Failed to start shell", <<>>)
    ELSE FailureNoOutput("Failed to start shell")

ConnErrorResult ==
    IF op = "executeCommandWithStream"
    THEN Failure("Connection error", <<>>)
    ELSE FailureNoOutput("Connection error")

ConnCloseResult ==
    IF op = "testConnection"
    THEN FailureNoOutput("Connection closed unexpectedly")
    ELSE Failure("Connection closed unexpectedly", commandOutput)

OverallTimeoutResult ==
    CASE op = "testConnection" -> FailureNoOutput("Connection timeout after 45 seconds")
      [] op = "executeCommand" -> FailureNoOutput("Command execution timeout")
      [] OTHER -> Failure("Command execution timeout", commandOutput)

NoResponseResult ==
    Failure("Command execution timeout - no response from server", commandOutput)

PromptWaitResult ==
    IF Len(commandOutput) > 0
    THEN TestFailureMessage("Connected but did not receive expected VOS CLI prompt (admin:)",
                            Substring(commandOutput, MessageLimit))
    ELSE FailureNoOutput("Connected but received no data from server")

OverallTimeoutMs == IF op = "testConnection" THEN TestOverallTimeoutMs ELSE commandTimeout

----------------------------------------------------------------------------
(* Initial state: a static operation has been called with its parameters,  *)
(* the promise executor has not run yet.                                   *)

SshInit ==
    /\ op \in Ops
    /\ command \in (IF op = "testConnection" THEN {<<>>} ELSE Commands)
    /\ commandTimeout \in (IF op = "testConnection" THEN {DefaultCommandTimeoutMs}
                                                    ELSE CommandTimeouts)
    /\ phase = "start"
    /\ connState = "idle"
    /\ shell = "none"
    /\ resolved = FALSE
    /\ endCalls = 0
    /\ result = NoResult
    /\ commandOutput = <<>>
    /\ received = <<>>
    /\ written = <<>>
    /\ now = 0
    /\ timeout = Off
    /\ graceTimer = Off
    /\ shellTimeout = Off
    /\ noResponseTimer = Off
    /\ onDataCalls = <<>>
    /\ executed = FALSE

----------------------------------------------------------------------------
(* Actions: the promise executor and one action per event handler          *)

\* The body of `new Promise((resolve) => { ... })`: arms the overall timer,
\* registers the handlers and calls conn.connect, which may throw.
Executor(throws) ==
    /\ phase = "start"
    /\ phase' = "running"
    /\ IF throws
       THEN /\ timeout' = Off
            /\ connState' = "closed"
            /\ ResolveResult(ConnectThrowsResult)
       ELSE /\ timeout' = now + Ticks(OverallTimeoutMs)
            /\ connState' = "connecting"
            /\ UNCHANGED <<resolved, endCalls, result>>
    /\ UNCHANGED nonSshVars
    /\ UNCHANGED <<op, command, commandTimeout, shell, commandOutput, received,
                   written, now, graceTimer, shellTimeout, noResponseTimer>>

\* conn.on('ready'): requests the interactive shell
ConnReady ==
    /\ phase = "running"
    /\ connState = "connecting"
    /\ endCalls = 0
    /\ connState' = "ready"
    /\ shell' = "requested"
    /\ UNCHANGED nonSshVars
    /\ UNCHANGED <<op, command, commandTimeout, phase, resolved, endCalls, result,
                   commandOutput, received, written, now, timeout, graceTimer,
                   shellTimeout, noResponseTimer>>

\* The callback of conn.shell((err, stream) => { ... })
ShellCallback(ok) ==
    /\ shell = "requested"
    /\ ok => (connState = "ready" /\ endCalls = 0)
    /\ IF ok
       THEN /\ shell' = "open"
            /\ graceTimer' = now + Ticks(GraceMs)
            /\ shellTimeout' = IF op = "testConnection"
                               THEN now + Ticks(PromptWaitMs) ELSE Off
            /\ UNCHANGED <<timeout, resolved, endCalls, result>>
       ELSE /\ shell' = "failed"
            /\ timeout' = Off
            /\ ResolveResult(ShellFailResult)
            /\ UNCHANGED <<graceTimer, shellTimeout>>
    /\ UNCHANGED nonSshVars
    /\ UNCHANGED <<op, command, commandTimeout, phase, connState, commandOutput,
                   received, written, now, noResponseTimer>>

\* Mutant of TestData: the prompt is looked for in the chunk only
TestDataChunkOnly(chunk) ==
    LET buf == commandOutput \o chunk IN
    /\ commandOutput' = buf
    /\ IF Includes(chunk, PromptToken)
       THEN /\ timeout' = Off
            /\ shellTimeout' = Off
            /\ ResolveResult(TestSuccess)
       ELSE UNCHANGED <<timeout, shellTimeout, resolved, endCalls, result>>

\* stream.on('data') of testConnection
TestData(chunk) ==
    LET buf == commandOutput \o chunk IN
    /\ commandOutput' = buf
    /\ IF Includes(buf, PromptToken)
       THEN /\ timeout' = Off
            /\ shellTimeout' = Off
            /\ ResolveResult(TestSuccess)
       ELSE UNCHANGED <<timeout, shellTimeout, resolved, endCalls, result>>

\* stream.on('data') of executeCommand and executeCommandWithStream
CommandData(chunk) ==
    LET buf == commandOutput \o chunk
        verdict == Completion(command, buf, chunk) IN
    /\ commandOutput' = buf
    /\ UNCHANGED shellTimeout
    /\ CASE verdict = "success" ->
              /\ timeout' = Off
              /\ ResolveResult(Success(buf))
         [] verdict = "failure" ->
              /\ timeout' = Off
              /\ ResolveResult(Failure("Service restart failed", buf))
         [] OTHER -> UNCHANGED <<timeout, resolved, endCalls, result>>

\* A chunk arrives on the primary stream; the remote echoes the command
\* only once it was written
DataStdout(chunk) ==
    /\ shell = "open"
    /\ connState = "ready"
    /\ Len(received) < MaxChunks
    /\ chunk = command => Len(written) > 0
    /\ received' = Append(received, [stream |-> "stdout", chunk |-> chunk])
    /\ IF op = "testConnection" THEN TestData(chunk) ELSE CommandData(chunk)
    /\ onDataCalls' = IF op = "executeCommandWithStream"
                      THEN Append(onDataCalls, chunk)
                      ELSE onDataCalls
    /\ UNCHANGED nonShellVars
    /\ UNCHANGED <<op, command, commandTimeout, phase, connState, shell, written,
                   now, graceTimer, noResponseTimer>>

\* Mutant of StderrData: the error stream is logged but not accumulated
StderrDataLogsOnly(chunk) == commandOutput' = commandOutput

\* stream.stderr.on('data'): testConnection only logs, the command
\* operations append to the buffer
StderrData(chunk) ==
    commandOutput' = IF op = "testConnection" THEN commandOutput
                                               ELSE commandOutput \o chunk

\* A chunk arrives on the error stream
DataStderr(chunk) ==
    /\ shell = "open"
    /\ connState = "ready"
    /\ Len(received) < MaxChunks
    /\ received' = Append(received, [stream |-> "stderr", chunk |-> chunk])
    /\ StderrData(chunk)
    /\ UNCHANGED nonSshVars
    /\ UNCHANGED <<op, command, commandTimeout, phase, connState, shell, resolved,
                   endCalls, result, written, now, timeout, graceTimer,
                   shellTimeout, noResponseTimer>>

\* stream.on('close', () => { clearTimeout(timeout); cleanup(); })
StreamCloseHandler ==
    /\ timeout' = Off
    /\ Cleanup
    /\ UNCHANGED result

StreamClose ==
    /\ shell = "open"
    /\ shell' = "closed"
    /\ StreamCloseHandler
    /\ UNCHANGED nonSshVars
    /\ UNCHANGED <<op, command, commandTimeout, phase, connState, commandOutput,
                   received, written, now, graceTimer, shellTimeout,
                   noResponseTimer>>

\* conn.on('error')
ConnErrorHandler ==
    /\ timeout' = Off
    /\ ResolveResult(ConnErrorResult)

\* The transport fails at the network level
ConnError ==
    /\ connState \in {"connecting", "ready"}
    /\ connState' = "errored"
    /\ ConnErrorHandler
    /\ UNCHANGED nonSshVars
    /\ UNCHANGED <<op, command, commandTimeout, phase, shell, commandOutput,
                   received, written, now, graceTimer, shellTimeout,
                   noResponseTimer>>

\* The transport's readyTimeout (20 s) elapses during the handshake: the
\* transport emits 'error'
HandshakeTimeout ==
    /\ connState = "connecting"
    /\ now >= Ticks(ReadyTimeoutMs)
    /\ connState' = "errored"
    /\ ConnErrorHandler
    /\ UNCHANGED nonSshVars
    /\ UNCHANGED <<op, command, commandTimeout, phase, shell, commandOutput,
                   received, written, now, graceTimer, shellTimeout,
                   noResponseTimer>>

\* conn.on('close')
ConnCloseHandler ==
    /\ timeout' = Off
    /\ IF ~resolved
       THEN ResolveResult(ConnCloseResult)
       ELSE UNCHANGED <<resolved, endCalls, result>>

ConnClose ==
    /\ connState \in {"connecting", "ready", "errored"}
    /\ connState' = "closed"
    /\ ConnCloseHandler
    /\ UNCHANGED nonSshVars
    /\ UNCHANGED <<op, command, commandTimeout, phase, shell, commandOutput,
                   received, written, now, graceTimer, shellTimeout,
                   noResponseTimer>>

\* The overall timer: setTimeout(() => resolveResult({...}), 45000 | commandTimeout)
OverallTimeoutFires ==
    /\ Due(timeout)
    /\ timeout' = Off
    /\ ResolveResult(OverallTimeoutResult)
    /\ UNCHANGED nonSshVars
    /\ UNCHANGED <<op, command, commandTimeout, phase, connState, shell,
                   commandOutput, received, written, now, graceTimer,
                   shellTimeout, noResponseTimer>>

\* Mutant of GraceFires: the timer callback lacks the resolved guard
GraceFiresUnguarded ==
    /\ Due(graceTimer)
    /\ graceTimer' = Off
    /\ IF op = "testConnection"
       THEN /\ written' = Append(written, LineTerminator)
            /\ UNCHANGED noResponseTimer
       ELSE /\ written' = Append(written, command \o LineTerminator)
            /\ noResponseTimer' = now + Ticks(RemainingTime(commandTimeout))
    /\ UNCHANGED nonSshVars
    /\ UNCHANGED <<op, command, commandTimeout, phase, connState, shell, resolved,
                   endCalls, result, commandOutput, received, now, timeout,
                   shellTimeout>>

\* The 5 s timer: testConnection writes a line terminator, the command
\* operations write the command and arm the no-response timer
GraceFires ==
    /\ Due(graceTimer)
    /\ graceTimer' = Off
    /\ IF ~resolved
       THEN IF op = "testConnection"
            THEN /\ written' = Append(written, LineTerminator)
                 /\ UNCHANGED noResponseTimer
            ELSE /\ written' = Append(written, command \o LineTerminator)
                 /\ noResponseTimer' = now + Ticks(RemainingTime(commandTimeout))
       ELSE UNCHANGED <<written, noResponseTimer>>
    /\ UNCHANGED nonSshVars
    /\ UNCHANGED <<op, command, commandTimeout, phase, connState, shell, resolved,
                   endCalls, result, commandOutput, received, now, timeout,
                   shellTimeout>>

\* testConnection's 60 s prompt-wait timer
ShellTimeoutFires ==
    /\ Due(shellTimeout)
    /\ shellTimeout' = Off
    /\ IF ~resolved
       THEN /\ timeout' = Off
            /\ ResolveResult(PromptWaitResult)
       ELSE UNCHANGED <<timeout, resolved, endCalls, result>>
    /\ UNCHANGED nonSshVars
    /\ UNCHANGED <<op, command, commandTimeout, phase, connState, shell,
                   commandOutput, received, written, now, graceTimer,
                   noResponseTimer>>

\* The no-response timer armed when the command was written
NoResponseFires ==
    /\ Due(noResponseTimer)
    /\ noResponseTimer' = Off
    /\ IF ~resolved
       THEN /\ timeout' = Off
            /\ ResolveResult(NoResponseResult)
       ELSE UNCHANGED <<timeout, resolved, endCalls, result>>
    /\ UNCHANGED nonSshVars
    /\ UNCHANGED <<op, command, commandTimeout, phase, connState, shell,
                   commandOutput, received, written, now, graceTimer,
                   shellTimeout>>

\* The remote reads the command line that was written to the shell and
\* executes it: what it emits from now on follows the execution.  What the
\* remote does after the call has resolved is not tracked.
RemoteExecutes ==
    /\ op # "testConnection"
    /\ shell = "open"
    /\ connState = "ready"
    /\ Len(written) > 0
    /\ ~resolved
    /\ ~executed
    /\ executed' = TRUE
    /\ UNCHANGED <<sshVars, observerVars, acmeVars, loadVars, dnsVars, waitVars,
                   inspVars, flowVars, infoVars, instVars>>

Armed == {t \in {timeout, graceTimer, shellTimeout, noResponseTimer} : t # Off}

SetMin(S) == CHOOSE x \in S : \A y \in S : x <= y

\* Time passes: no armed timer is overdue, and a handshake does not outlast
\* the transport's readyTimeout.  While the call is pending time advances
\* tick by tick; once the guard flag is set no event depends on the time
\* any more and the clock moves on to the next armed timer.
Tick ==
    /\ phase = "running"
    /\ \A t \in Armed : t > now
    /\ connState = "connecting" => now < Ticks(ReadyTimeoutMs)
    /\ IF resolved
       THEN /\ Armed # {}
            /\ now' = SetMin(Armed)
       ELSE /\ Armed # {} \/ connState = "connecting"
            /\ now' = now + 1
    /\ UNCHANGED nonSshVars
    /\ UNCHANGED <<op, command, commandTimeout, phase, connState, shell, resolved,
                   endCalls, result, commandOutput, received, written, timeout,
                   graceTimer, shellTimeout, noResponseTimer>>

----------------------------------------------------------------------------
(* ACMEClient (backend/src/acme-client.ts)                                 *)
(*                                                                         *)
(* One instance, its method calls made one after the other.  The ACME      *)
(* server and the acme-client library are the environment: a raced request *)
(* is answered (with a value or a failure) before its deadline, or the     *)
(* deadline timer wins and the abandoned request may still complete later. *)
(* The library signs every request after registration with the account URL *)
(* of the client object and rejects locally when that object has none (the *)
(* source relies on it: createAccount guards api.getAccountUrl()).         *)
(* The server answers an order with one authorization per distinct         *)
(* identifier, in any order, each offering some challenge types.           *)

Domains == {"a.example.com", "b.example.com"}

\* Domain lists a caller may pass, duplicates and the empty list included
DomainLists == UNION { [1..n -> Domains] : n \in 0..MaxDomains }

\* Values of process.env.LETSENCRYPT_STAGING
StagingSettings == {"unset", "false", "true", "FALSE"}

StagingDirectory == "letsencrypt-staging"
ProductionDirectory == "letsencrypt-production"

\* this.isStaging ? acme.directory.letsencrypt.staging : ...production
DirectoryUrl(staging) == IF staging THEN StagingDirectory ELSE ProductionDirectory

AccountTimeoutMs == 30000
OrderTimeoutMs == 15000
AuthTimeoutMs == 30000

\* ACME time is counted in ticks of the shortest deadline
AcmeTicks(ms) == ms \div OrderTimeoutMs

\* Challenge types an authorization may offer, in the order it lists them
Offers == { <<"http-01", "dns-01", "tls-alpn-01">>,
            <<"dns-01">>,
            <<"http-01", "tls-alpn-01">> }

Challenge(domain, type) == [type |-> type, identifier |-> domain]

Authorization(domain, offer) ==
    [identifier |-> domain,
     challenges |-> [i \in 1..Len(offer) |-> Challenge(domain, offer[i])]]

Range(f) == { f[i] : i \in DOMAIN f }

\* The authorization lists the server may return for an order of the given
\* domains: one authorization per distinct identifier, in any order
AuthorizationLists(domains) ==
    LET ids == Range(domains)
        orders == { o \in [1..Cardinality(ids) -> ids] : Range(o) = ids }
    IN  { [i \in 1..Len(o) |-> Authorization(o[i], offer[o[i]])] :
            o \in orders, offer \in [ids -> Offers] }

NoCall == [method |-> "none", pc |-> "idle", domain |-> "", domains |-> <<>>,
           clientId |-> 0]

NoOutcome == [method |-> "none", status |-> "none", error |-> "",
              errDomain |-> "", domains |-> <<>>, challenges |-> <<>>]

Returned(method, domains, challenges) ==
    [method |-> method, status |-> "returned", error |-> "", errDomain |-> "",
     domains |-> domains, challenges |-> challenges]

Rejected(method, error, errDomain) ==
    [method |-> method, status |-> "rejected", error |-> error,
     errDomain |-> errDomain, domains |-> <<>>, challenges |-> <<>>]

\* A request sent through the library client clientId and not yet answered
InFlight(kind, clientId) == [kind |-> kind, clientId |-> clientId]

NoLoad == [domain |-> "", threw |-> FALSE]

NoAccount == [present |-> FALSE, directory |-> "", hasUrl |-> FALSE]

\* Mutant of FindDns01: degrades to the first challenge of any type
FindFirstChallenge(challenges) == IF Len(challenges) > 0 THEN 1 ELSE 0

\* authorization.challenges.find(challenge => challenge.type === 'dns-01'):
\* the index of the first DNS-01 challenge, 0 when there is none
FindDns01(challenges) ==
    IF \E i \in 1..Len(challenges) : challenges[i].type = "dns-01"
    THEN CHOOSE i \in 1..Len(challenges) :
            /\ challenges[i].type = "dns-01"
            /\ \A j \in 1..(i - 1) : challenges[j].type # "dns-01"
    ELSE 0

\* for (const authorization of authorizations) { ... push or throw ... }
RECURSIVE CollectChallenges(_, _, _)
CollectChallenges(authorizations, i, challenges) ==
    IF i > Len(authorizations)
    THEN [ok |-> TRUE, challenges |-> challenges, errDomain |-> ""]
    ELSE LET authorization == authorizations[i]
             k == FindDns01(authorization.challenges)
         IN  IF k # 0
             THEN CollectChallenges(authorizations, i + 1,
                                    Append(challenges, authorization.challenges[k]))
             ELSE [ok |-> FALSE, challenges |-> <<>>,
                   errDomain |-> authorization.identifier]

\* An account file of this deployment's environment: account files carry
\* the environment in their name (domain_letsencrypt_staging.json or
\* domain_letsencrypt_prod.json), so the file an instance loads was saved
\* by createAccount under the same value of the switch
PersistedAccount(staging) ==
    [present |-> TRUE, directory |-> DirectoryUrl(staging), hasUrl |-> TRUE]

\* const isStaging = process.env.LETSENCRYPT_STAGING !== 'false';
\* export const acmeClient = new ACMEClient(isStaging)
AcmeInit ==
    /\ letsencryptStaging \in StagingSettings
    /\ isStaging = (letsencryptStaging # "false")
    /\ client = 0
    /\ clients = <<>>
    /\ store \in [Domains -> {NoAccount, PersistedAccount(isStaging)}]
    /\ call = NoCall
    /\ nCalls = 0
    /\ elapsed = 0
    /\ abandoned = {}
    /\ sent = <<>>
    /\ accountOk = FALSE
    /\ lastAuthz = <<>>
    /\ outcome = NoOutcome
    /\ lastLoad = NoLoad

\* The ACME variables while only the SSH operations are looked at
AcmeParked ==
    /\ isStaging = TRUE
    /\ client = 0
    /\ clients = <<>>
    /\ store = [d \in Domains |-> NoAccount]
    /\ call = NoCall
    /\ nCalls = 0
    /\ elapsed = 0
    /\ abandoned = {}
    /\ sent = <<>>
    /\ accountOk = FALSE
    /\ lastAuthz = <<>>
    /\ outcome = NoOutcome
    /\ lastLoad = NoLoad

\* The SSH variables while only the ACME client is looked at
SshParked ==
    /\ op = "testConnection"
    /\ command = <<>>
    /\ commandTimeout = DefaultCommandTimeoutMs
    /\ phase = "start"
    /\ connState = "idle"
    /\ shell = "none"
    /\ resolved = FALSE
    /\ endCalls = 0
    /\ result = NoResult
    /\ commandOutput = <<>>
    /\ received = <<>>
    /\ written = <<>>
    /\ now = 0
    /\ timeout = Off
    /\ graceTimer = Off
    /\ shellTimeout = Off
    /\ noResponseTimer = Off
    /\ onDataCalls = <<>>
    /\ executed = FALSE

Idle == call.method = "none" /\ nCalls < MaxCalls

\* The call in progress settles
Finish(o) ==
    /\ call' = NoCall
    /\ outcome' = o

\* createAccount up to its first suspension on the network: generates the
\* key, replaces this.client by a client for that key and sends the
\* registration, raced against a 30 s timer
CreateAccountStart(domain) ==
    /\ Idle
    /\ nCalls' = nCalls + 1
    /\ clients' = Append(clients, [directory |-> DirectoryUrl(isStaging),
                                   hasUrl |-> FALSE])
    /\ client' = Len(clients) + 1
    /\ sent' = Append(sent, [kind |-> "newAccount", clientId |-> Len(clients) + 1,
                             directory |-> DirectoryUrl(isStaging)])
    /\ call' = [method |-> "createAccount", pc |-> "register", domain |-> domain,
                domains |-> <<>>, clientId |-> Len(clients) + 1]
    /\ elapsed' = 0
    /\ lastAuthz' = <<>>
    /\ UNCHANGED <<isStaging, store, abandoned, accountOk, outcome>>
    /\ UNCHANGED nonAcmeVars

\* The registration is answered before the deadline: on success the library
\* records the account URL in the client object
RegistrationResponds(ok) ==
    /\ call.method = "createAccount" /\ call.pc = "register"
    /\ elapsed < AcmeTicks(AccountTimeoutMs)
    /\ IF ok
       THEN /\ clients' = [clients EXCEPT ![call.clientId].hasUrl = TRUE]
            /\ call' = [call EXCEPT !.pc = "save"]
            /\ UNCHANGED outcome
       ELSE /\ Finish(Rejected("createAccount", "registration failed", ""))
            /\ UNCHANGED clients
    /\ UNCHANGED <<isStaging, client, store, nCalls, elapsed, abandoned, sent,
                   accountOk, lastAuthz>>
    /\ UNCHANGED nonAcmeVars

\* The 30 s timer wins the race: createAccount rejects, the registration
\* stays in flight
RegistrationTimeout ==
    /\ call.method = "createAccount" /\ call.pc = "register"
    /\ elapsed >= AcmeTicks(AccountTimeoutMs)
    /\ abandoned' = abandoned \cup {InFlight("newAccount", call.clientId)}
    /\ Finish(Rejected("createAccount", "Account creation timeout after 30 seconds", ""))
    /\ UNCHANGED <<isStaging, client, clients, store, nCalls, elapsed, sent,
                   accountOk, lastAuthz>>
    /\ UNCHANGED nonAcmeVars

\* Mutant of LateRegistration: the late registration resumes the abandoned
\* call, which saves the account
LateRegistrationSaves(id, ok) ==
    /\ InFlight("newAccount", id) \in abandoned
    /\ abandoned' = abandoned \ {InFlight("newAccount", id)}
    /\ clients' = IF ok THEN [clients EXCEPT ![id].hasUrl = TRUE] ELSE clients
    /\ store' = IF ok THEN [d \in Domains |-> PersistedAccount(isStaging)] ELSE store
    /\ UNCHANGED <<isStaging, client, call, nCalls, elapsed, sent,
                   accountOk, lastAuthz, outcome>>
    /\ UNCHANGED nonAcmeVars

\* An abandoned registration completes after all
LateRegistration(id, ok) ==
    /\ InFlight("newAccount", id) \in abandoned
    /\ abandoned' = abandoned \ {InFlight("newAccount", id)}
    /\ clients' = IF ok THEN [clients EXCEPT ![id].hasUrl = TRUE] ELSE clients
    /\ UNCHANGED <<isStaging, client, store, call, nCalls, elapsed, sent,
                   accountOk, lastAuthz, outcome>>
    /\ UNCHANGED nonAcmeVars

\* await accountManager.saveAccount(connectionId, domain, 'letsencrypt', acmeAccount)
SaveAccount(ok) ==
    /\ call.method = "createAccount" /\ call.pc = "save"
    /\ IF ok
       THEN /\ store' = [store EXCEPT ![call.domain] =
                            [present |-> TRUE,
                             directory |-> DirectoryUrl(isStaging),
                             hasUrl |-> TRUE]]
            /\ accountOk' = TRUE
            /\ Finish(Returned("createAccount", <<>>, <<>>))
       ELSE /\ Finish(Rejected("createAccount", "save failed", ""))
            /\ UNCHANGED <<store, accountOk>>
    /\ UNCHANGED <<isStaging, client, clients, nCalls, elapsed, abandoned, sent,
                   lastAuthz>>
    /\ UNCHANGED nonAcmeVars

\* Mutant of LoadAccount: the client is built for the library's production
\* directory instead of the directory persisted with the account
LoadAccountDefaultDirectory(domain, throws) ==
    /\ Idle
    /\ nCalls' = nCalls + 1
    /\ lastAuthz' = <<>>
    /\ IF throws \/ ~store[domain].present
       THEN /\ outcome' = Returned("loadAccount", <<>>, <<>>)
            /\ UNCHANGED <<client, clients, accountOk>>
       ELSE /\ clients' = Append(clients, [directory |-> ProductionDirectory,
                                           hasUrl |-> store[domain].hasUrl])
            /\ client' = Len(clients) + 1
            /\ accountOk' = TRUE
            /\ outcome' = Returned("loadAccount", <<domain>>, <<>>)
    /\ lastLoad' = [domain |-> domain, threw |-> throws]
    /\ UNCHANGED <<isStaging, store, call, elapsed, abandoned, sent>>
    /\ UNCHANGED nonClientVars

\* Mutant of LoadAccount: a call that finds nothing resets this.client
LoadAccountClearsClient(domain, throws) ==
    /\ Idle
    /\ nCalls' = nCalls + 1
    /\ lastAuthz' = <<>>
    /\ IF throws \/ ~store[domain].present
       THEN /\ outcome' = Returned("loadAccount", <<>>, <<>>)
            /\ client' = 0
            /\ UNCHANGED <<clients, accountOk>>
       ELSE /\ clients' = Append(clients, [directory |-> store[domain].directory,
                                           hasUrl |-> store[domain].hasUrl])
            /\ client' = Len(clients) + 1
            /\ accountOk' = TRUE
            /\ outcome' = Returned("loadAccount", <<domain>>, <<>>)
    /\ lastLoad' = [domain |-> domain, threw |-> throws]
    /\ UNCHANGED <<isStaging, store, call, elapsed, abandoned, sent>>
    /\ UNCHANGED nonClientVars

\* loadAccount: null when nothing is persisted or when loading throws
\* (accountManager.loadAccount rejects, or rebuilding the client from the
\* persisted material throws), otherwise this.client is replaced by a client
\* for the persisted account
LoadAccount(domain, throws) ==
    /\ Idle
    /\ nCalls' = nCalls + 1
    /\ lastAuthz' = <<>>
    /\ IF throws \/ ~store[domain].present
       THEN /\ outcome' = Returned("loadAccount", <<>>, <<>>)
            /\ UNCHANGED <<client, clients, accountOk>>
       ELSE /\ clients' = Append(clients, [directory |-> store[domain].directory,
                                           hasUrl |-> store[domain].hasUrl])
            /\ client' = Len(clients) + 1
            /\ accountOk' = TRUE
            /\ outcome' = Returned("loadAccount", <<domain>>, <<>>)
    /\ lastLoad' = [domain |-> domain, threw |-> throws]
    /\ UNCHANGED <<isStaging, store, call, elapsed, abandoned, sent>>
    /\ UNCHANGED nonClientVars

\* requestCertificate up to its first suspension: the two guards, then
\* this.client.createOrder raced against a 15 s timer
RequestCertificateStart(domains) ==
    /\ Idle
    /\ nCalls' = nCalls + 1
    /\ lastAuthz' = <<>>
    /\ elapsed' = 0
    /\ IF client = 0
       THEN /\ outcome' = Rejected("requestCertificate", "ACME client not initialized", "")
            /\ UNCHANGED <<call, sent>>
       ELSE IF Len(domains) = 0
       THEN /\ outcome' = Rejected("requestCertificate", "No domains provided", "")
            /\ UNCHANGED <<call, sent>>
       ELSE IF ~clients[client].hasUrl
       THEN /\ outcome' = Rejected("requestCertificate", "No account URL found", "")
            /\ UNCHANGED <<call, sent>>
       ELSE /\ sent' = Append(sent, [kind |-> "newOrder", clientId |-> client,
                                     directory |-> clients[client].directory])
            /\ call' = [method |-> "requestCertificate", pc |-> "order",
                        domain |-> "", domains |-> domains, clientId |-> client]
            /\ UNCHANGED outcome
    /\ UNCHANGED <<isStaging, client, clients, store, abandoned, accountOk>>
    /\ UNCHANGED nonAcmeVars

\* The order creation is answered before the deadline; on success the
\* authorizations are fetched, raced against a 30 s timer
OrderResponds(ok) ==
    /\ call.method = "requestCertificate" /\ call.pc = "order"
    /\ elapsed < AcmeTicks(OrderTimeoutMs)
    /\ IF ok
       THEN /\ sent' = Append(sent, [kind |-> "getAuthorizations", clientId |-> client,
                                     directory |-> clients[client].directory])
            /\ call' = [call EXCEPT !.pc = "authorizations"]
            /\ elapsed' = 0
            /\ UNCHANGED outcome
       ELSE /\ Finish(Rejected("requestCertificate", "order creation failed", ""))
            /\ UNCHANGED <<sent, elapsed>>
    /\ UNCHANGED <<isStaging, client, clients, store, nCalls, abandoned, accountOk,
                   lastAuthz>>
    /\ UNCHANGED nonAcmeVars

\* Mutant of OrderTimeout: the timer does not wait for its deadline
OrderTimeoutEarly ==
    /\ call.method = "requestCertificate" /\ call.pc = "order"
    /\ abandoned' = abandoned \cup {InFlight("newOrder", call.clientId)}
    /\ Finish(Rejected("requestCertificate", "Order creation timeout after 15 seconds - Let's Encrypt API may be slow", ""))
    /\ UNCHANGED <<isStaging, client, clients, store, nCalls, elapsed,
                   sent, accountOk, lastAuthz>>
    /\ UNCHANGED nonAcmeVars

\* The 15 s timer wins the race
OrderTimeout ==
    /\ call.method = "requestCertificate" /\ call.pc = "order"
    /\ elapsed >= AcmeTicks(OrderTimeoutMs)
    /\ abandoned' = abandoned \cup {InFlight("newOrder", call.clientId)}
    /\ Finish(Rejected("requestCertificate", "Order creation timeout after 15 seconds - Let's Encrypt API may be slow", ""))
    /\ UNCHANGED <<isStaging, client, clients, store, nCalls, elapsed,
                   sent, accountOk, lastAuthz>>
    /\ UNCHANGED nonAcmeVars

\* The authorizations arrive before the deadline: one DNS-01 challenge is
\* collected per authorization, or the call rejects
AuthorizationsRespond(authorizations) ==
    /\ call.method = "requestCertificate" /\ call.pc = "authorizations"
    /\ elapsed < AcmeTicks(AuthTimeoutMs)
    /\ lastAuthz' = authorizations
    /\ LET collected == CollectChallenges(authorizations, 1, <<>>) IN
       IF collected.ok
       THEN Finish(Returned("requestCertificate", call.domains, collected.challenges))
       ELSE Finish(Rejected("requestCertificate", "No DNS-01 challenge found",
                            collected.errDomain))
    /\ UNCHANGED <<isStaging, client, clients, store, nCalls, elapsed, abandoned,
                   sent, accountOk>>
    /\ UNCHANGED nonAcmeVars

AuthorizationsFail ==
    /\ call.method = "requestCertificate" /\ call.pc = "authorizations"
    /\ elapsed < AcmeTicks(AuthTimeoutMs)
    /\ Finish(Rejected("requestCertificate", "authorization retrieval failed", ""))
    /\ UNCHANGED <<isStaging, client, clients, store, nCalls, elapsed, abandoned,
                   sent, accountOk, lastAuthz>>
    /\ UNCHANGED nonAcmeVars

AuthorizationsTimeout ==
    /\ call.method = "requestCertificate" /\ call.pc = "authorizations"
    /\ elapsed >= AcmeTicks(AuthTimeoutMs)
    /\ abandoned' = abandoned \cup {InFlight("getAuthorizations", call.clientId)}
    /\ Finish(Rejected("requestCertificate",
                       "Authorization retrieval timeout after 30 seconds", ""))
    /\ UNCHANGED <<isStaging, client, clients, store, nCalls, elapsed,
                   sent, accountOk, lastAuthz>>
    /\ UNCHANGED nonAcmeVars

\* Mutant of LateResponse: the late order resumes the abandoned call and the
\* authorizations are fetched for it
LateResponseFetches(request) ==
    /\ request \in abandoned
    /\ request.kind # "newAccount"
    /\ abandoned' = abandoned \ {request}
    /\ sent' = IF request.kind = "newOrder"
               THEN Append(sent, [kind |-> "getAuthorizations",
                                  clientId |-> request.clientId,
                                  directory |-> clients[request.clientId].directory])
               ELSE sent
    /\ UNCHANGED <<isStaging, client, clients, store, call, nCalls, elapsed,
                   accountOk, lastAuthz, outcome>>
    /\ UNCHANGED nonAcmeVars

\* An abandoned order creation or authorization fetch settles after all:
\* Promise.race has settled already, the late result is dropped
LateResponse(request) ==
    /\ request \in abandoned
    /\ request.kind # "newAccount"
    /\ abandoned' = abandoned \ {request}
    /\ UNCHANGED <<isStaging, client, clients, store, call, nCalls, elapsed, sent,
                   accountOk, lastAuthz, outcome>>
    /\ UNCHANGED nonAcmeVars

\* The deadline of the race in progress
Deadline ==
    CASE call.pc = "register" -> AcmeTicks(AccountTimeoutMs)
      [] call.pc = "order" -> AcmeTicks(OrderTimeoutMs)
      [] call.pc = "authorizations" -> AcmeTicks(AuthTimeoutMs)
      [] OTHER -> 0

\* Time passes while a request is raced against its timer
AcmeTick ==
    /\ elapsed < Deadline
    /\ elapsed' = elapsed + 1
    /\ UNCHANGED <<isStaging, client, clients, store, call, nCalls, abandoned,
                   sent, accountOk, lastAuthz, outcome>>
    /\ UNCHANGED nonAcmeVars

AcmeNext ==
    \/ \E d \in Domains : CreateAccountStart(d)
    \/ \E ok \in BOOLEAN : RegistrationResponds(ok)
    \/ RegistrationTimeout
    \/ \E id \in 1..Len(clients), ok \in BOOLEAN : LateRegistration(id, ok)
    \/ \E request \in abandoned : LateResponse(request)
    \/ \E ok \in BOOLEAN : SaveAccount(ok)
    \/ \E d \in Domains, throws \in BOOLEAN : LoadAccount(d, throws)
    \/ \E ds \in DomainLists : RequestCertificateStart(ds)
    \/ \E ok \in BOOLEAN : OrderResponds(ok)
    \/ OrderTimeout
    \/ \E az \in AuthorizationLists(call.domains) : AuthorizationsRespond(az)
    \/ AuthorizationsFail
    \/ AuthorizationsTimeout
    \/ AcmeTick

----------------------------------------------------------------------------
(* ACMEClient.getDNSRecordValue                                            *)
(* A string is a sequence of characters.  The alphabet holds a letter, a   *)
(* base64url punctuation character, and the separator of a key             *)
(* authorization (token "." thumbprint), which is outside base64url.       *)

KeyChars == {"A", "_", "."}

Base64UrlChars == {"A", "_"}

KeyAuthorizations == UNION { [1..n -> KeyChars] : n \in 0..MaxKeyLen }

\* SHA-256: a digest of 256 bits, encoded 6 bits per character, unpadded
DigestBits == 256
EncodedDigestLen == (DigestBits + 5) \div 6

\* getDNSRecordValue(keyAuthorization): return keyAuthorization
getDNSRecordValue(keyAuthorization) == keyAuthorization

DnsInit == dnsLog = <<>>

DnsParked == dnsLog = <<>>

GetDNSRecordValue(keyAuthorization) ==
    /\ Len(dnsLog) < MaxDnsCalls
    /\ dnsLog' = Append(dnsLog, [keyAuthorization |-> keyAuthorization,
                                 value |-> getDNSRecordValue(keyAuthorization)])
    /\ UNCHANGED nonDnsVars

DnsNext == \E ka \in KeyAuthorizations : GetDNSRecordValue(ka)

----------------------------------------------------------------------------
(* ACMEClient.waitForOrderCompletion                                       *)
(* Time is counted in ticks of the 2 s settling delay.  A call into the    *)
(* acme-client library (waitForValidStatus, getOrder, getAuthorizations)   *)
(* is a promise of the library: it may resolve, reject, or stay pending,   *)
(* at any time.                                                            *)

SettleDelayMs == 2000
DefaultMaxWaitMs == 300000

WaitTicks(ms) == ms \div SettleDelayMs

\* Values of the maxWaitTime argument
MaxWaitTimes == {5 * SettleDelayMs, DefaultMaxWaitMs}

\* Model time stops one tick after the ceiling the caller asked for
WaitHorizon == WaitTicks(SettleDelayMs + maxWaitTime) + 1

WaitPending == [status |-> "pending", error |-> ""]
WaitReturned == [status |-> "returned", error |-> ""]
WaitRejected(error) == [status |-> "rejected", error |-> error]

\* Mutant of Rethrown: a failed diagnostic call replaces the original error
RethrownDiagnostic(error, diagnostic) ==
    IF diagnostic # "" THEN diagnostic ELSE error

\* throw error, at the end of the outer catch block
Rethrown(error, diagnostic) == error

WaitInit ==
    /\ waitPc = "idle"
    /\ maxWaitTime \in MaxWaitTimes
    /\ waitNow = 0
    /\ waitError = ""
    /\ diagError = ""
    /\ waitOutcome = WaitPending

WaitParked ==
    /\ waitPc = "idle"
    /\ maxWaitTime = DefaultMaxWaitMs
    /\ waitNow = 0
    /\ waitError = ""
    /\ diagError = ""
    /\ waitOutcome = WaitPending

\* waitForOrderCompletion(order, maxWaitTime) up to the settling delay
WaitStart ==
    /\ waitPc = "idle"
    /\ waitPc' = "delay"
    /\ UNCHANGED <<maxWaitTime, waitNow, waitError, diagError, waitOutcome>>
    /\ UNCHANGED nonWaitVars

\* await new Promise(resolve => setTimeout(resolve, 2000)), then
\* this.client.waitForValidStatus(order) is called
DelayElapses ==
    /\ waitPc = "delay"
    /\ waitNow >= WaitTicks(SettleDelayMs)
    /\ waitPc' = "waitValid"
    /\ UNCHANGED <<maxWaitTime, waitNow, waitError, diagError, waitOutcome>>
    /\ UNCHANGED nonWaitVars

\* this.client.waitForValidStatus(order) settles
WaitForValidStatus(ok) ==
    /\ waitPc = "waitValid"
    /\ IF ok
       THEN waitPc' = "refetch" /\ UNCHANGED waitError
       ELSE waitPc' = "diagOrder" /\ waitError' = "waitForValidStatus failed"
    /\ UNCHANGED <<maxWaitTime, waitNow, diagError, waitOutcome>>
    /\ UNCHANGED nonWaitVars

\* const completedOrder = await this.client.getOrder(order) settles
GetOrder(ok) ==
    /\ waitPc = "refetch"
    /\ IF ok
       THEN /\ waitPc' = "done"
            /\ waitOutcome' = WaitReturned
            /\ UNCHANGED waitError
       ELSE /\ waitPc' = "diagOrder"
            /\ waitError' = "getOrder failed"
            /\ UNCHANGED waitOutcome
    /\ UNCHANGED <<maxWaitTime, waitNow, diagError>>
    /\ UNCHANGED nonWaitVars

\* catch: the diagnostic this.client.getOrder(order) settles (its result is
\* logged); on failure detailError is logged and the original error rethrown
DiagnosticGetOrder(ok) ==
    /\ waitPc = "diagOrder"
    /\ IF ok
       THEN /\ waitPc' = "diagAuthz"
            /\ UNCHANGED <<diagError, waitOutcome>>
       ELSE /\ waitPc' = "done"
            /\ diagError' = "diagnostic getOrder failed"
            /\ waitOutcome' = WaitRejected(Rethrown(waitError, diagError'))
    /\ UNCHANGED <<maxWaitTime, waitNow, waitError>>
    /\ UNCHANGED nonWaitVars

\* catch: the diagnostic this.client.getAuthorizations(orderStatus) settles;
\* either way the original error is rethrown
DiagnosticGetAuthorizations(ok) ==
    /\ waitPc = "diagAuthz"
    /\ waitPc' = "done"
    /\ diagError' = IF ok THEN "" ELSE "diagnostic getAuthorizations failed"
    /\ waitOutcome' = WaitRejected(Rethrown(waitError, diagError'))
    /\ UNCHANGED <<maxWaitTime, waitNow, waitError>>
    /\ UNCHANGED nonWaitVars

\* Two seconds pass while the call is suspended; the settling delay's timer
\* fires when it is due
WaitTick ==
    /\ waitPc \notin {"idle", "done"}
    /\ ~(waitPc = "delay" /\ waitNow >= WaitTicks(SettleDelayMs))
    /\ waitNow < WaitHorizon
    /\ waitNow' = waitNow + 1
    /\ UNCHANGED <<waitPc, maxWaitTime, waitError, diagError, waitOutcome>>
    /\ UNCHANGED nonWaitVars

WaitNext ==
    \/ WaitStart
    \/ DelayElapses
    \/ \E ok \in BOOLEAN : WaitForValidStatus(ok)
    \/ \E ok \in BOOLEAN : GetOrder(ok)
    \/ \E ok \in BOOLEAN : DiagnosticGetOrder(ok)
    \/ \E ok \in BOOLEAN : DiagnosticGetAuthorizations(ok)
    \/ WaitTick

----------------------------------------------------------------------------
(* Certificate inspector: getCertificateInfo, getCertificateInfoFromFile,  *)
(* getCertificateInfoWithFallback (backend/src/ssh-client.ts).             *)
(* Time is counted in ticks of the 5 s socket timeout.  What the remote    *)
(* does on a port is the environment's choice at each probe.               *)

\* Mutant of Ports: another priority order
PortsReordered == <<8443, 443, 9443>>

\* const ports = [443, 8443, 9443]
Ports == <<443, 8443, 9443>>

SocketTimeoutMs == 5000

InspTicks(ms) == ms \div SocketTimeoutMs

\* Mutant of IsStagingSetting: staging only when the variable is 'true'
IsStagingOnlyWhenTrue(setting) == setting = "true"

\* process.env.LETSENCRYPT_STAGING !== 'false'
IsStagingSetting(setting) == setting # "false"

\* const certSubDir = isStaging ? 'staging' : 'prod'
CertSubDir == IF IsStagingSetting(letsencryptStaging) THEN "staging" ELSE "prod"

\* const alternateCertSubDir = isStaging ? 'prod' : 'staging'
AlternateCertSubDir ==
    IF IsStagingSetting(letsencryptStaging) THEN "prod" ELSE "staging"

SubDirs == {"staging", "prod"}

\* certificate.pem in a subdirectory: missing, parseable, or not parseable
FileStates == {"absent", "valid", "corrupt"}

InspPending == [status |-> "pending", source |-> "none", port |-> 0, dir |-> ""]

\* A CertificateInfo built from the peer certificate of a port
LiveCertificate(port) ==
    [status |-> "returned", source |-> "live", port |-> port, dir |-> ""]

\* A CertificateInfo built from the certificate.pem of a subdirectory
FileCertificate(dir) ==
    [status |-> "returned", source |-> "file", port |-> 0, dir |-> dir]

\* Mutant of NotFound: the absence of any certificate is raised as an error
NotFoundThrown == [status |-> "rejected", source |-> "none", port |-> 0, dir |-> ""]

\* return null at the end of getCertificateInfoWithFallback
NotFound == [status |-> "returned", source |-> "none", port |-> 0, dir |-> ""]

\* getCertificateInfoFromFile(certPath): null when the file does not exist
\* or when parsing throws, otherwise the parsed certificate
getCertificateInfoFromFile(dir) ==
    IF files[dir] = "valid" THEN FileCertificate(dir) ELSE NotFound

\* How a probe can end: the secure connection is established and the peer
\* certificate is usable, empty, or makes the parse throw; the socket
\* reports an error; the socket times out; tls.connect throws
ConnectOutcomes == {"certificate", "empty", "malformed"}

InspInit ==
    /\ letsencryptStaging \in StagingSettings
    /\ files \in [SubDirs -> FileStates]
    /\ inspPc = "idle"
    /\ portIdx = 0
    /\ probeIdle = 0
    /\ probed = <<>>
    /\ yielded = <<>>
    /\ readDirs = <<>>
    /\ inspResult = InspPending

\* The inspector is not called
InspIdle ==
    /\ files = [d \in SubDirs |-> "absent"]
    /\ inspPc = "idle"
    /\ portIdx = 0
    /\ probeIdle = 0
    /\ probed = <<>>
    /\ yielded = <<>>
    /\ readDirs = <<>>
    /\ inspResult = InspPending

InspParked ==
    /\ letsencryptStaging = "unset"
    /\ InspIdle

\* await getCertificateInfo(hostname, ports[i]): tls.connect is called and
\* the socket's 5 s idle timer starts
StartProbe(i) ==
    /\ inspPc' = "probing"
    /\ portIdx' = i
    /\ probeIdle' = 0
    /\ probed' = Append(probed, Ports[i])
    /\ UNCHANGED <<readDirs, inspResult>>

\* The two file fallbacks and the final return null
FileFallbacks ==
    LET localCertInfo == getCertificateInfoFromFile(CertSubDir)
        alternateCertInfo == getCertificateInfoFromFile(AlternateCertSubDir)
    IN  /\ inspPc' = "done"
        /\ IF localCertInfo # NotFound
           THEN /\ readDirs' = <<CertSubDir>>
                /\ inspResult' = localCertInfo
           ELSE /\ readDirs' = <<CertSubDir, AlternateCertSubDir>>
                /\ inspResult' = IF alternateCertInfo # NotFound
                                 THEN alternateCertInfo
                                 ELSE NotFound
        /\ UNCHANGED <<portIdx, probeIdle, probed>>

\* Mutant of AfterProbe: a parseable certificate.pem of the configured
\* subdirectory is preferred to the live certificate
AfterProbeFileFirst(how) ==
    /\ yielded' = Append(yielded, how)
    /\ IF how = "certificate"
       THEN /\ inspPc' = "done"
            /\ IF files[CertSubDir] = "valid"
               THEN /\ inspResult' = FileCertificate(CertSubDir)
                    /\ readDirs' = <<CertSubDir>>
               ELSE /\ inspResult' = LiveCertificate(Ports[portIdx])
                    /\ UNCHANGED readDirs
            /\ UNCHANGED <<portIdx, probeIdle, probed>>
       ELSE IF portIdx < Len(Ports)
       THEN StartProbe(portIdx + 1)
       ELSE FileFallbacks
    /\ UNCHANGED <<letsencryptStaging, files>>
    /\ UNCHANGED nonInspVars

\* The loop body after a probe has ended: return the live certificate, go
\* on with the next port, or fall back to the local files
AfterProbe(how) ==
    /\ yielded' = Append(yielded, how)
    /\ IF how = "certificate"
       THEN /\ inspPc' = "done"
            /\ inspResult' = LiveCertificate(Ports[portIdx])
            /\ UNCHANGED <<portIdx, probeIdle, probed, readDirs>>
       ELSE IF portIdx < Len(Ports)
       THEN StartProbe(portIdx + 1)
       ELSE FileFallbacks
    /\ UNCHANGED <<letsencryptStaging, files>>
    /\ UNCHANGED nonInspVars

\* getCertificateInfoWithFallback(hostname) up to the first probe
InspectStart ==
    /\ inspPc = "idle"
    /\ StartProbe(1)
    /\ UNCHANGED <<letsencryptStaging, files, yielded>>
    /\ UNCHANGED nonInspVars

\* tls.connect throws: the probe's promise rejects and the loop's catch
\* logs it
ConnectThrows ==
    /\ inspPc = "probing"
    /\ probeIdle = 0
    /\ AfterProbe("threw")

\* Mutant of SecureConnect: an exception while building certInfo is not
\* caught and ends the whole chain
SecureConnectUncaught(peer) ==
    /\ inspPc = "probing"
    /\ IF peer = "malformed"
       THEN /\ yielded' = Append(yielded, peer)
            /\ inspPc' = "done"
            /\ inspResult' = NotFoundThrown
            /\ UNCHANGED <<letsencryptStaging, files, portIdx, probeIdle, probed,
                           readDirs>>
            /\ UNCHANGED nonInspVars
       ELSE AfterProbe(peer)

\* tls.connect callback: resolve(certInfo), or resolve(null) for an empty
\* certificate or when building certInfo throws; finally socket.destroy()
SecureConnect(peer) ==
    /\ inspPc = "probing"
    /\ AfterProbe(peer)

\* socket.on('error'): resolve(null)
SocketError ==
    /\ inspPc = "probing"
    /\ AfterProbe("error")

\* Mutant of SocketTimeout: the socket is destroyed, the promise is left
\* pending
SocketTimeoutNoResolve ==
    /\ inspPc = "probing"
    /\ probeIdle >= InspTicks(SocketTimeoutMs)
    /\ UNCHANGED vars

\* socket.on('timeout'): socket.destroy(); resolve(null)
SocketTimeout ==
    /\ inspPc = "probing"
    /\ probeIdle >= InspTicks(SocketTimeoutMs)
    /\ AfterProbe("timeout")

\* Five seconds pass with no activity on the probe's socket
InspTick ==
    /\ inspPc = "probing"
    /\ probeIdle < InspTicks(SocketTimeoutMs)
    /\ probeIdle' = probeIdle + 1
    /\ UNCHANGED <<letsencryptStaging, files, inspPc, portIdx, probed, yielded,
                   readDirs, inspResult>>
    /\ UNCHANGED nonInspVars

InspNext ==
    \/ InspectStart
    \/ ConnectThrows
    \/ \E peer \in ConnectOutcomes : SecureConnect(peer)
    \/ SocketError
    \/ SocketTimeout
    \/ InspTick

----------------------------------------------------------------------------
(* Issuance flows on the module-level acmeClient                           *)
(*                                                                         *)
(* acmeClient is one instance for the whole process.  A caller runs one    *)
(* issuance flow per domain on it: loadAccount, createAccount when nothing *)
(* is persisted, requestCertificate, completeChallenge,                    *)
(* finalizeCertificate and possibly revokeCertificate.  Every await inside *)
(* a method is a suspension point at which steps of the other flow run.    *)
(* A library client signs each request with the account key it was built   *)
(* with; the methods read this.client anew at every use.  The deadline     *)
(* races are reduced to their three outcomes here.                         *)

Flows == Domains

NoClient == ""

\* A request as the server sees it: signed with the account key of flow key
Request(kind, key) == [kind |-> kind, key |-> key]

\* How a raced request ends, and how an unraced one does
RaceOutcomes == {"ok", "failed", "timeout"}

Ended(how) == IF how = "timeout" THEN "timedOut" ELSE "failed"

\* The method in progress sends a request through this.client
FlowSends(f, kind, signer) ==
    flowSent' = [flowSent EXCEPT ![f] = Append(@, Request(kind, signer))]

FlowInit ==
    /\ flowPc = [f \in Flows |-> "start"]
    /\ flowClient = NoClient
    /\ flowSent = [f \in Flows |-> <<>>]

\* The flows while another component is looked at
FlowParked == FlowInit

\* loadAccount(domain): null when nothing is persisted, otherwise
\* this.client is replaced by a client for the persisted account key
FlowLoadAccount(f, found) ==
    /\ flowPc[f] = "start"
    /\ IF found
       THEN /\ flowClient' = f
            /\ flowPc' = [flowPc EXCEPT ![f] = "account"]
       ELSE /\ flowPc' = [flowPc EXCEPT ![f] = "create"]
            /\ UNCHANGED flowClient
    /\ UNCHANGED flowSent
    /\ UNCHANGED nonFlowVars

\* createAccount(email, domain) up to the await of the registration race:
\* this.client is replaced by a client for the new key and registers it
FlowCreateAccount(f) ==
    /\ flowPc[f] = "create"
    /\ flowClient' = f
    /\ FlowSends(f, "newAccount", f)
    /\ flowPc' = [flowPc EXCEPT ![f] = "registering"]
    /\ UNCHANGED nonFlowVars

\* The registration race is decided: the account is saved, or the call throws
FlowRegistrationSettles(f, how) ==
    /\ flowPc[f] = "registering"
    /\ flowPc' = [flowPc EXCEPT ![f] = IF how = "ok" THEN "saving" ELSE Ended(how)]
    /\ UNCHANGED <<flowClient, flowSent>>
    /\ UNCHANGED nonFlowVars

\* requestCertificate(csr, domains) up to the await of the order race
FlowRequestCertificate(f) ==
    /\ flowPc[f] = "account"
    /\ IF flowClient = NoClient
       THEN /\ flowPc' = [flowPc EXCEPT ![f] = "failed"]
            /\ UNCHANGED flowSent
       ELSE /\ FlowSends(f, "newOrder", flowClient)
            /\ flowPc' = [flowPc EXCEPT ![f] = "ordering"]
    /\ UNCHANGED flowClient
    /\ UNCHANGED nonFlowVars

\* Mutant of FlowOrderSettles: an order creation that failed or timed out is
\* sent again
FlowOrderRetries(f, how) ==
    /\ flowPc[f] = "ordering"
    /\ IF how = "ok"
       THEN /\ FlowSends(f, "getAuthorizations", flowClient)
            /\ flowPc' = [flowPc EXCEPT ![f] = "authorizing"]
       ELSE /\ FlowSends(f, "newOrder", flowClient)
            /\ flowPc' = [flowPc EXCEPT ![f] = Ended(how)]
    /\ UNCHANGED flowClient
    /\ UNCHANGED nonFlowVars

\* The order race is decided: this.client.getAuthorizations(order) is sent
\* and raced, or the call throws
FlowOrderSettles(f, how) ==
    /\ flowPc[f] = "ordering"
    /\ IF how = "ok"
       THEN /\ FlowSends(f, "getAuthorizations", flowClient)
            /\ flowPc' = [flowPc EXCEPT ![f] = "authorizing"]
       ELSE /\ flowPc' = [flowPc EXCEPT ![f] = Ended(how)]
            /\ UNCHANGED flowSent
    /\ UNCHANGED flowClient
    /\ UNCHANGED nonFlowVars

\* The authorization race is decided: the order with its DNS-01 challenges
\* is returned, or the call throws (a missing DNS-01 challenge included)
FlowAuthorizationsSettle(f, how) ==
    /\ flowPc[f] = "authorizing"
    /\ flowPc' = [flowPc EXCEPT ![f] = IF how = "ok" THEN "ordered" ELSE Ended(how)]
    /\ UNCHANGED <<flowClient, flowSent>>
    /\ UNCHANGED nonFlowVars

\* completeChallenge(challenge) up to its await
FlowCompleteChallenge(f) ==
    /\ flowPc[f] = "ordered"
    /\ FlowSends(f, "challengeReady", flowClient)
    /\ flowPc' = [flowPc EXCEPT ![f] = "completing"]
    /\ UNCHANGED flowClient
    /\ UNCHANGED nonFlowVars

\* finalizeCertificate(order, csr) up to its first await
FlowFinalizeCertificate(f) ==
    /\ flowPc[f] = "challenged"
    /\ FlowSends(f, "finalize", flowClient)
    /\ flowPc' = [flowPc EXCEPT ![f] = "finalizing"]
    /\ UNCHANGED flowClient
    /\ UNCHANGED nonFlowVars

\* finalizeOrder is answered: this.client.getCertificate(finalizedOrder) is
\* sent, or the call throws
FlowOrderFinalized(f, ok) ==
    /\ flowPc[f] = "finalizing"
    /\ IF ok
       THEN /\ FlowSends(f, "getCertificate", flowClient)
            /\ flowPc' = [flowPc EXCEPT ![f] = "fetching"]
       ELSE /\ flowPc' = [flowPc EXCEPT ![f] = "failed"]
            /\ UNCHANGED flowSent
    /\ UNCHANGED flowClient
    /\ UNCHANGED nonFlowVars

\* revokeCertificate(certificate, reason) up to its await
FlowRevokeCertificate(f) ==
    /\ flowPc[f] = "issued"
    /\ FlowSends(f, "revoke", flowClient)
    /\ flowPc' = [flowPc EXCEPT ![f] = "revoking"]
    /\ UNCHANGED flowClient
    /\ UNCHANGED nonFlowVars

\* Where a method's last await leaves the flow when it is answered
AfterLastAwait(pc) ==
    CASE pc = "saving" -> "account"
      [] pc = "completing" -> "challenged"
      [] pc = "fetching" -> "issued"
      [] pc = "revoking" -> "revoked"
      [] OTHER -> pc

\* The last await of createAccount (saveAccount), completeChallenge,
\* finalizeCertificate or revokeCertificate settles: the method returns,
\* or logs and rethrows
FlowMethodSettles(f, ok) ==
    /\ flowPc[f] \in {"saving", "completing", "fetching", "revoking"}
    /\ flowPc' = [flowPc EXCEPT ![f] = IF ok THEN AfterLastAwait(@) ELSE "failed"]
    /\ UNCHANGED <<flowClient, flowSent>>
    /\ UNCHANGED nonFlowVars

FlowNext ==
    \/ \E f \in Flows, found \in BOOLEAN : FlowLoadAccount(f, found)
    \/ \E f \in Flows : FlowCreateAccount(f)
    \/ \E f \in Flows, how \in RaceOutcomes : FlowRegistrationSettles(f, how)
    \/ \E f \in Flows : FlowRequestCertificate(f)
    \/ \E f \in Flows, how \in RaceOutcomes : FlowOrderSettles(f, how)
    \/ \E f \in Flows, how \in RaceOutcomes : FlowAuthorizationsSettle(f, how)
    \/ \E f \in Flows : FlowCompleteChallenge(f)
    \/ \E f \in Flows : FlowFinalizeCertificate(f)
    \/ \E f \in Flows, ok \in BOOLEAN : FlowOrderFinalized(f, ok)
    \/ \E f \in Flows : FlowRevokeCertificate(f)
    \/ \E f \in Flows, ok \in BOOLEAN : FlowMethodSettles(f, ok)

----------------------------------------------------------------------------
(* CertificateInfo: the two computed fields isValid and daysUntilExpiry,   *)
(* built by getCertificateInfo from a peer certificate and by              *)
(* getCertificateInfoFromFile from a certificate.pem.  Times are           *)
(* Date.getTime() values, integer milliseconds.                            *)

\* 1000 * 60 * 60 * 24
DayMs == 1000 * 60 * 60 * 24

\* Times at, just after and just before a day boundary
Times == { d * DayMs + o : d \in 0..MaxDays, o \in {0, 1, DayMs - 1} }

\* Mutant of DaysUntilExpiry: the quotient is truncated towards zero
DaysUntilExpiryTruncated(validTo, at) ==
    IF validTo >= at THEN (validTo - at) \div DayMs
    ELSE -((at - validTo) \div DayMs)

\* Math.floor((validTo.getTime() - now.getTime()) / (1000 * 60 * 60 * 24))
DaysUntilExpiry(validTo, at) == (validTo - at) \div DayMs

\* now >= validFrom && now <= validTo
IsValid(validFrom, validTo, at) == at >= validFrom /\ at <= validTo

NoInfo == [source |-> "none", isValid |-> FALSE, daysUntilExpiry |-> 0]

InfoInit ==
    /\ infoNow \in Times
    /\ infoValidFrom \in Times
    /\ infoValidTo \in Times
    /\ certInfo = NoInfo

\* No CertificateInfo is being built
InfoParked ==
    /\ infoNow = 0
    /\ infoValidFrom = 0
    /\ infoValidTo = 0
    /\ certInfo = NoInfo

\* The connect callback of getCertificateInfo builds certInfo from the peer
\* certificate
BuildLiveInfo ==
    /\ certInfo = NoInfo
    /\ certInfo' = [source |-> "live",
                    isValid |-> IsValid(infoValidFrom, infoValidTo, infoNow),
                    daysUntilExpiry |-> DaysUntilExpiry(infoValidTo, infoNow)]
    /\ UNCHANGED <<infoNow, infoValidFrom, infoValidTo>>
    /\ UNCHANGED nonInfoVars

\* getCertificateInfoFromFile builds certInfo from the parsed file
BuildFileInfo ==
    /\ certInfo = NoInfo
    /\ certInfo' = [source |-> "file",
                    isValid |-> IsValid(infoValidFrom, infoValidTo, infoNow),
                    daysUntilExpiry |-> DaysUntilExpiry(infoValidTo, infoNow)]
    /\ UNCHANGED <<infoNow, infoValidFrom, infoValidTo>>
    /\ UNCHANGED nonInfoVars

InfoNext ==
    \/ BuildLiveInfo
    \/ BuildFileInfo

----------------------------------------------------------------------------
(* One SSHClient instance: connect, disconnect, isClientConnected and the  *)
(* events of the transports it created.  A transport connects, becomes     *)
(* ready, may report an error, and closes; end() asks it to close.  The    *)
(* handlers installed by connect() stay on a transport after this.client   *)
(* has moved on.                                                           *)

Transport(state, ended) == [state |-> state, ended |-> ended]

InstInit ==
    /\ sshClient = 0
    /\ isConnected = FALSE
    /\ transports = <<>>

InstParked == InstInit

\* connect(config): this.client = new Client(), the three handlers are
\* installed and the transport starts connecting
InstConnect ==
    /\ Len(transports) < MaxTransports
    /\ transports' = Append(transports, Transport("connecting", FALSE))
    /\ sshClient' = Len(transports) + 1
    /\ UNCHANGED isConnected
    /\ UNCHANGED nonInstVars

\* client.on('ready'): this.isConnected = true
TransportReady(i) ==
    /\ transports[i].state = "connecting"
    /\ ~transports[i].ended
    /\ transports' = [transports EXCEPT ![i].state = "ready"]
    /\ isConnected' = TRUE
    /\ UNCHANGED sshClient
    /\ UNCHANGED nonInstVars

\* client.on('error'): this.isConnected = false
TransportError(i) ==
    /\ transports[i].state \in {"connecting", "ready"}
    /\ transports' = [transports EXCEPT ![i].state = "errored"]
    /\ isConnected' = FALSE
    /\ UNCHANGED sshClient
    /\ UNCHANGED nonInstVars

\* client.on('close'): this.isConnected = false
TransportClose(i) ==
    /\ transports[i].state # "closed"
    /\ transports' = [transports EXCEPT ![i].state = "closed"]
    /\ isConnected' = FALSE
    /\ UNCHANGED sshClient
    /\ UNCHANGED nonInstVars

\* disconnect(): only with a client and the flag set
Disconnect ==
    /\ IF sshClient # 0 /\ isConnected
       THEN /\ transports' = [transports EXCEPT ![sshClient].ended = TRUE]
            /\ isConnected' = FALSE
            /\ sshClient' = 0
       ELSE UNCHANGED <<transports, isConnected, sshClient>>
    /\ UNCHANGED nonInstVars

\* isClientConnected()
isClientConnected == isConnected

InstNext ==
    \/ InstConnect
    \/ \E i \in 1..Len(transports) : TransportReady(i)
    \/ \E i \in 1..Len(transports) : TransportError(i)
    \/ \E i \in 1..Len(transports) : TransportClose(i)
    \/ Disconnect

----------------------------------------------------------------------------
(* Specifications of the ACME client and of the certificate inspector      *)

DnsSpecInit == DnsInit /\ SshParked /\ AcmeParked /\ WaitParked /\ InspParked
               /\ FlowParked /\ InfoParked /\ InstParked

DnsSpec == DnsSpecInit /\ [][DnsNext]_vars

WaitSpecInit == WaitInit /\ SshParked /\ AcmeParked /\ DnsParked /\ InspParked
                /\ FlowParked /\ InfoParked /\ InstParked

WaitSpec == WaitSpecInit /\ [][WaitNext]_vars

InspSpecInit == InspInit /\ SshParked /\ AcmeParked /\ DnsParked /\ WaitParked
                /\ FlowParked /\ InfoParked /\ InstParked

InspSpec == InspSpecInit /\ [][InspNext]_vars

\* The event loop runs the call, time passes, and a due socket timer fires
InspFairness ==
    /\ WF_vars(InspectStart)
    /\ WF_vars(InspTick)
    /\ WF_vars(SocketTimeout)

InspFairSpec == InspSpec /\ InspFairness

AcmeSpecInit == AcmeInit /\ SshParked /\ DnsParked /\ WaitParked /\ InspIdle
                /\ FlowParked /\ InfoParked /\ InstParked

AcmeSpec == AcmeSpecInit /\ [][AcmeNext]_vars

FlowSpecInit == FlowInit /\ SshParked /\ AcmeParked /\ DnsParked /\ WaitParked
                /\ InspParked /\ InfoParked /\ InstParked

InfoSpecInit == InfoInit /\ SshParked /\ AcmeParked /\ DnsParked /\ WaitParked
                /\ InspParked /\ FlowParked /\ InstParked

InfoSpec == InfoSpecInit /\ [][InfoNext]_vars

InstSpecInit == InstInit /\ SshParked /\ AcmeParked /\ DnsParked /\ WaitParked
                /\ InspParked /\ FlowParked /\ InfoParked

InstSpec == InstSpecInit /\ [][InstNext]_vars

FlowSpec == FlowSpecInit /\ [][FlowNext]_vars

\* The event loop fires the timer of every race still undecided, and the
\* local persistence collaborator answers saveAccount.  Nothing is assumed
\* of the ACME server: it may leave any request unanswered for ever.
FlowFairness ==
    \A f \in Flows :
        /\ WF_vars(FlowRegistrationSettles(f, "timeout"))
        /\ WF_vars(FlowOrderSettles(f, "timeout"))
        /\ WF_vars(FlowAuthorizationsSettle(f, "timeout"))
        /\ WF_vars(flowPc[f] = "saving" /\ \E ok \in BOOLEAN : FlowMethodSettles(f, ok))

FlowFairSpec == FlowSpec /\ FlowFairness

----------------------------------------------------------------------------
(* Specifications of the static SSH operations                             *)

Next ==
    \/ \E throws \in BOOLEAN : Executor(throws)
    \/ ConnReady
    \/ \E ok \in BOOLEAN : ShellCallback(ok)
    \/ \E chunk \in StdoutChunks(command) : DataStdout(chunk)
    \/ \E chunk \in StderrChunks : DataStderr(chunk)
    \/ StreamClose
    \/ ConnError
    \/ HandshakeTimeout
    \/ ConnClose
    \/ OverallTimeoutFires
    \/ GraceFires
    \/ ShellTimeoutFires
    \/ NoResponseFires
    \/ RemoteExecutes
    \/ Tick

\* Once conn.end() has been called the transport closes
TransportCloses == endCalls > 0 /\ ConnClose

Init == SshInit /\ AcmeParked /\ DnsParked /\ WaitParked /\ InspParked
        /\ FlowParked /\ InfoParked /\ InstParked

Spec == Init /\ [][Next]_vars

\* The event loop runs the executor and every due timer; the transport's
\* own handshake timer fires as well, and a transport that was ended
\* closes.  Nothing else is assumed of the remote.
Fairness ==
    /\ WF_vars(\E throws \in BOOLEAN : Executor(throws))
    /\ WF_vars(Tick)
    /\ WF_vars(HandshakeTimeout)
    /\ WF_vars(OverallTimeoutFires)
    /\ WF_vars(GraceFires)
    /\ WF_vars(ShellTimeoutFires)
    /\ WF_vars(NoResponseFires)
    /\ WF_vars(TransportCloses)

FairSpec == Spec /\ Fairness

----------------------------------------------------------------------------
(* Properties of the static SSH operations                                 *)

CommandOps == {"executeCommand", "executeCommandWithStream"}

TimerErrors == {"Command execution timeout",
                "Command execution timeout - no response from server"}

\* The concatenation, in arrival order, of the chunks of a history
RECURSIVE Concat(_)
Concat(h) ==
    IF h = <<>> THEN <<>>
    ELSE Concat(SubSeq(h, 1, Len(h) - 1)) \o h[Len(h)].chunk

\* This step settles the returned promise
Settles == ~result.settled /\ result'.settled

\* This step delivers a chunk on the given stream
Delivers(stream) ==
    /\ Len(received') = Len(received) + 1
    /\ received'[Len(received')].stream = stream

LastChunk == received'[Len(received')].chunk

HasFailureMarker(buf) == Includes(buf, FailedMarker) \/ Includes(buf, ErrorMarker)

\* C1: every invocation of a static operation eventually settles its
\* promise (exactly once), whichever terminal event comes first, the shell
\* channel's 'close' included.
C1_EventuallyResolves == <>(result.settled)

\* C2: conn.end() is called at most once per invocation under every
\* interleaving of events, and exactly once by the time the promise has
\* settled.
C2_TeardownOnce == endCalls <= 1 /\ (result.settled => endCalls = 1)

\* C2 witness: the promise settled after data had arrived, and both the
\* shell channel's and the transport's close events were handled afterwards.
C2_Witness ==
    /\ result.settled
    /\ endCalls = 1
    /\ Len(received) > 0
    /\ shell = "closed"
    /\ connState = "closed"

\* C3: in the command operations a result produced by a timer (overall
\* deadline or no-response timer) carries as output the whole buffer
\* accumulated up to that moment; output that was captured is never omitted.
C3_TimeoutKeepsOutput ==
    [][(/\ op \in CommandOps
        /\ Settles
        /\ result'.error \in TimerErrors
        /\ Len(commandOutput) > 0)
         => (result'.hasOutput /\ result'.output = commandOutput)]_vars

\* C4: in executeCommandWithStream every failing result carries as output
\* all chunks received before the failure event.
C4_FailureKeepsOutput ==
    [][(op = "executeCommandWithStream" /\ Settles /\ ~result'.success)
         => (result'.hasOutput /\ result'.output = commandOutput')]_vars

\* C5: in the command operations the running buffer is the concatenation,
\* in arrival order, of all chunks received on the primary and the error
\* stream, and an output returned by any terminating branch is a prefix of it.
C5_OutputPrefix ==
    op \in CommandOps =>
        /\ commandOutput = Concat(received)
        /\ (result.settled /\ result.hasOutput)
              => IsPrefix(result.output, Concat(received))

\* C5 witness: a result carrying output was returned and a chunk of the
\* error stream arrived after it, so that the output is a proper prefix.
C5_Witness ==
    /\ op \in CommandOps
    /\ result.settled /\ result.hasOutput
    /\ Len(result.output) > 0
    /\ Len(result.output) < Len(commandOutput)
    /\ received[Len(received)].stream = "stderr"

\* C6: for a Cisco Tomcat restart, while no terminal event has occurred, a
\* primary-stream chunk containing the prompt token that arrives while the
\* accumulated buffer contains [STARTED] resolves the call with success and
\* the entire buffer, that chunk included.
C6_RestartSuccess ==
    [][(/\ op \in CommandOps
        /\ IsServiceRestart(command)
        /\ ~resolved
        /\ Delivers("stdout")
        /\ Includes(LastChunk, PromptToken)
        /\ Includes(commandOutput', StartedMarker))
         => result' = Success(commandOutput')]_vars

\* C6 witness: a restart reported success on a prompt chunk that followed
\* an earlier chunk, the output being the whole buffer.
C6_Witness ==
    /\ op \in CommandOps
    /\ IsServiceRestart(command)
    /\ Len(received) = 2
    /\ received[2].chunk = PromptToken
    /\ result = Success(commandOutput)

\* C7: for a restart, as soon as the accumulated buffer (primary and error
\* stream) contains [FAILED] or ERROR and no [STARTED], the call is resolved
\* with success = false on that very event.
C7_FailureAtOnce ==
    (/\ op \in CommandOps
     /\ IsServiceRestart(command)
     /\ HasFailureMarker(commandOutput)
     /\ ~Includes(commandOutput, StartedMarker))
      => (resolved /\ result.settled /\ ~result.success)

----------------------------------------------------------------------------
(* Properties of ACMEClient.requestCertificate                             *)

\* The authorization offers no challenge of type dns-01
LacksDns01(authorization) ==
    \A k \in 1..Len(authorization.challenges) :
        authorization.challenges[k].type # "dns-01"

OrderReturned ==
    outcome.method = "requestCertificate" /\ outcome.status = "returned"

\* Challenges of the returned order that are DNS-01 challenges for domain d
Dns01For(d) ==
    { j \in 1..Len(outcome.challenges) :
        /\ outcome.challenges[j].identifier = d
        /\ outcome.challenges[j].type = "dns-01" }

\* C8: for every non-empty domain list D, an order returned by
\* requestCertificate holds exactly one DNS-01 challenge for each domain of
\* D, as many challenges as domains.
C8_OneChallengePerDomain ==
    OrderReturned =>
        /\ Len(outcome.challenges) = Len(outcome.domains)
        /\ \A i \in 1..Len(outcome.domains) :
              Cardinality(Dns01For(outcome.domains[i])) = 1

\* C9: if any authorization of the order has no dns-01 challenge,
\* requestCertificate rejects with an error naming the domain of such an
\* authorization (the first in the list), wherever it stands and whatever
\* else it offers; a returned order holds dns-01 challenges only.
C9_MissingDns01Rejects ==
    (call.method = "none" /\ outcome.method = "requestCertificate" /\ lastAuthz # <<>>)
      => /\ IF \E i \in 1..Len(lastAuthz) : LacksDns01(lastAuthz[i])
            THEN /\ outcome.status = "rejected"
                 /\ outcome.error = "No DNS-01 challenge found"
                 /\ outcome.challenges = <<>>
                 /\ \E i \in 1..Len(lastAuthz) :
                       /\ LacksDns01(lastAuthz[i])
                       /\ \A j \in 1..(i - 1) : ~LacksDns01(lastAuthz[j])
                       /\ outcome.errDomain = lastAuthz[i].identifier
            ELSE outcome.status = "returned"
         /\ \A j \in 1..Len(outcome.challenges) :
               outcome.challenges[j].type = "dns-01"

\* C9 witness: the second of two authorizations offers other challenge
\* types but no dns-01, the first offers dns-01, and the call rejected
\* naming the second one's domain.
C9_Witness ==
    /\ call.method = "none"
    /\ outcome.method = "requestCertificate"
    /\ outcome.status = "rejected"
    /\ Len(lastAuthz) = 2
    /\ ~LacksDns01(lastAuthz[1])
    /\ LacksDns01(lastAuthz[2])
    /\ Len(lastAuthz[2].challenges) > 0
    /\ outcome.errDomain = lastAuthz[2].identifier

\* This step sends an order-creation request
SendsOrder ==
    /\ Len(sent') = Len(sent) + 1
    /\ sent'[Len(sent')].kind = "newOrder"

\* C10: an order-creation request is sent only if the domain list is
\* non-empty and a createAccount or loadAccount on this instance has
\* succeeded before.
C10_OrderNeedsAccount ==
    [][SendsOrder => (accountOk /\ Len(call'.domains) > 0)]_vars

----------------------------------------------------------------------------
(* Properties of getDNSRecordValue (DnsSpec)                               *)

OnlyBase64Url(s) == \A i \in 1..Len(s) : s[i] \in Base64UrlChars

\* C11: every value returned by getDNSRecordValue uses only the base64url
\* alphabet and has the length of an encoded 32-byte digest, and two calls
\* with equal arguments return equal values.
C11_DnsRecordValue ==
    /\ \A i \in 1..Len(dnsLog) :
          /\ OnlyBase64Url(dnsLog[i].value)
          /\ Len(dnsLog[i].value) = EncodedDigestLen
    /\ \A i, j \in 1..Len(dnsLog) :
          dnsLog[i].keyAuthorization = dnsLog[j].keyAuthorization
             => dnsLog[i].value = dnsLog[j].value

----------------------------------------------------------------------------
(* Properties of the deadline races (AcmeSpec)                             *)

InRace == call.pc \in {"register", "order", "authorizations"}

\* The race in progress is decided by this step
RaceDecided == InRace /\ call' # call

TimeoutError(pc) ==
    CASE pc = "register" -> "Account creation timeout after 30 seconds"
      [] pc = "order" -> "Order creation timeout after 15 seconds - Let's Encrypt API may be slow"
      [] OTHER -> "Authorization retrieval timeout after 30 seconds"

TimeoutErrors == { TimeoutError(pc) : pc \in {"register", "order", "authorizations"} }

RaceRequest ==
    InFlight(CASE call.pc = "register" -> "newAccount"
               [] call.pc = "order" -> "newOrder"
               [] OTHER -> "getAuthorizations", call.clientId)

\* C12: a race decided before its deadline yields the operation's own result
\* (the call goes on with the value, or rejects with the operation's
\* failure) and leaves nothing in flight; a race decided at the deadline
\* yields the timeout failure of that race and leaves the operation in
\* flight; an operation that settles after its deadline changes neither the
\* outcome delivered nor the call in progress.
C12_DeadlineRace ==
    [][/\ RaceDecided =>
            IF elapsed < Deadline
            THEN /\ \/ call' # NoCall /\ outcome' = outcome
                    \/ call' = NoCall /\ outcome'.error \notin TimeoutErrors
                 /\ abandoned' = abandoned
            ELSE /\ call' = NoCall
                 /\ outcome' = Rejected(call.method, TimeoutError(call.pc), "")
                 /\ RaceRequest \in abandoned'
       /\ (abandoned' # abandoned /\ ~RaceDecided) =>
            (outcome' = outcome /\ call' = call)
      ]_vars

\* Each of the three races has timed out at some point and every abandoned
\* operation has settled since, with a timeout outcome still standing
C12_Witness ==
    /\ call = NoCall
    /\ abandoned = {}
    /\ outcome.error \in TimeoutErrors
    /\ nCalls > 0

----------------------------------------------------------------------------
(* Properties of waitForOrderCompletion (WaitSpec)                         *)

\* C13: a call of waitForOrderCompletion has settled once more than the 2 s
\* settling delay plus maxWaitTime has passed since it was made.
C13_SettlesWithinCeiling ==
    (waitPc # "idle" /\ waitNow > WaitTicks(SettleDelayMs + maxWaitTime))
        => waitPc = "done"

OriginalErrors == {"waitForValidStatus failed", "getOrder failed"}

\* C14: when waitForOrderCompletion rejects, the error raised is the one
\* caught from waitForValidStatus or from the order re-fetch, whether the
\* diagnostic calls succeeded or failed.
C14_OriginalErrorRaised ==
    waitOutcome.status = "rejected" =>
        (waitOutcome.error = waitError /\ waitError \in OriginalErrors)

\* The call rejected after a diagnostic call had failed
C14_Witness ==
    /\ waitOutcome.status = "rejected"
    /\ diagError # ""

----------------------------------------------------------------------------
(* Properties of getCertificateInfoWithFallback (InspSpec, InspFairSpec)   *)

NoLiveCertificate == \A i \in 1..Len(yielded) : yielded[i] # "certificate"

\* The subdirectory of the configured environment, as the specification
\* states it, and the other one
ConfiguredDir == IF letsencryptStaging = "false" THEN "prod" ELSE "staging"
OtherDir == IF letsencryptStaging = "false" THEN "staging" ELSE "prod"

\* C15: the ports probed are 443, 8443, 9443 in this order, a probe starts
\* only when the one before has ended, and the call returns the live
\* certificate of the first port that yielded one, after which no further
\* port is probed.
C15_PortOrder ==
    /\ IsPrefix(probed, <<443, 8443, 9443>>)
    /\ Len(probed) = Len(yielded) + (IF inspPc = "probing" THEN 1 ELSE 0)
    /\ \A i \in 1..Len(yielded) :
          yielded[i] = "certificate" =>
             /\ i = Len(probed)
             /\ inspResult = LiveCertificate(probed[i])
    /\ inspResult.source = "live" =>
          /\ Len(yielded) > 0
          /\ yielded[Len(yielded)] = "certificate"

\* The second port yielded the certificate: the third was never probed
C15_Witness ==
    /\ inspPc = "done"
    /\ probed = <<443, 8443>>
    /\ inspResult = LiveCertificate(8443)

\* C16: when no probe yielded a live certificate and the configured
\* environment's subdirectory holds a parseable certificate.pem, the call
\* returns the parse of that file and has read no other subdirectory; the
\* other subdirectory is read only after the configured one yielded nothing.
C16_ConfiguredFileFirst ==
    /\ (inspPc = "done" /\ NoLiveCertificate /\ files[ConfiguredDir] = "valid")
          => (inspResult = FileCertificate(ConfiguredDir)
              /\ readDirs = <<ConfiguredDir>>)
    /\ (\E i \in 1..Len(readDirs) : readDirs[i] = OtherDir)
          => (readDirs = <<ConfiguredDir, OtherDir>>
              /\ files[ConfiguredDir] # "valid")

\* Production is configured, both subdirectories hold a parseable file, and
\* the production one was returned without reading the staging one
C16_Witness ==
    /\ inspPc = "done"
    /\ letsencryptStaging = "false"
    /\ files = [d \in SubDirs |-> "valid"]
    /\ inspResult = FileCertificate("prod")
    /\ readDirs = <<"prod">>

\* C17: the call never rejects, and when all three probes failed and neither
\* subdirectory holds a certificate file it resolves with null.
C17_NotFoundIsNull ==
    /\ inspResult.status # "rejected"
    /\ (inspPc = "done" /\ NoLiveCertificate
           /\ \A d \in SubDirs : files[d] = "absent")
          => (inspResult.status = "returned" /\ inspResult.source = "none")

\* One probe was refused, one timed out, one saw an empty certificate, and
\* no file exists
C17_Witness ==
    /\ inspPc = "done"
    /\ yielded = <<"error", "timeout", "empty">>
    /\ \A d \in SubDirs : files[d] = "absent"
    /\ inspResult.status = "returned"
    /\ inspResult.source = "none"

\* C18: every call of getCertificateInfoWithFallback eventually returns,
\* whatever the host does on the three ports.
C18_EventuallyReturns == <>(inspPc = "done")

\* The host never answered: all three probes ended by their timeout
C18_Witness ==
    /\ inspPc = "done"
    /\ yielded = <<"timeout", "timeout", "timeout">>

----------------------------------------------------------------------------
(* Properties of loadAccount (AcmeSpec)                                    *)

LoadAccountSettled == outcome.method = "loadAccount"

ReturnedNull == outcome.status = "returned" /\ outcome.domains = <<>>

\* C19: a loadAccount call returns null exactly when the persistence
\* collaborator holds no account for the domain asked for, and a call in
\* which loading the account failed rejects.
C19_NullOnlyWhenNoAccount ==
    LoadAccountSettled =>
        /\ ReturnedNull <=> ~store[lastLoad.domain].present
        /\ lastLoad.threw => outcome.status = "rejected"

----------------------------------------------------------------------------
(* Late events of executeCommandWithStream (Spec)                          *)

\* C20: once the promise of executeCommandWithStream has resolved, a chunk
\* that arrives calls the onData observer no more, leaves the running
\* buffer as it is, and causes neither another resolution nor another
\* teardown.
C20_LateDataIgnored ==
    [][(op = "executeCommandWithStream" /\ result.settled /\ received' # received)
          => /\ onDataCalls' = onDataCalls
             /\ commandOutput' = commandOutput
             /\ result' = result
             /\ endCalls' = endCalls]_vars

----------------------------------------------------------------------------
(* Completion detection of the static SSH operations (Spec)                *)

\* The pending promise is resolved with success by this step
ResolvesSuccess == ~result.settled /\ result'.settled /\ result'.success

\* C21: a command that is not a service restart is reported successful only
\* once the remote has executed it: success is never resolved on a prompt
\* the remote emitted before the execution.
C21_SuccessAfterExecution ==
    [][(op \in CommandOps /\ ~IsServiceRestart(command) /\ ResolvesSuccess)
          => executed]_vars

\* C22: testConnection resolves success only with the prompt token in the
\* data accumulated, and does so on the first chunk that completes the token
\* in the accumulated data while the call is still pending, however the
\* token is split over chunks; all it ever writes to the shell is one line
\* terminator, written while the call has not resolved.
C22_ProbeOnly ==
    [][op = "testConnection" =>
          /\ ResolvesSuccess => Includes(commandOutput', PromptToken)
          /\ (~resolved /\ received' # received
                 /\ Includes(commandOutput', PromptToken))
                => (result'.settled /\ result'.success)
          /\ written' \in {<<>>, <<LineTerminator>>}
          /\ written' # written => ~resolved]_vars

\* The line terminator was written, then the prompt arrived split over two
\* chunks and the probe succeeded
C22_Witness ==
    /\ op = "testConnection"
    /\ result.settled /\ result.success
    /\ written = <<LineTerminator>>
    /\ Len(received) = 2
    /\ received[1].chunk = <<"adm">>
    /\ received[2].chunk = <<"in:">>

RestartCommand == op \in CommandOps /\ IsServiceRestart(command)

\* C23: a service restart is resolved successful only by a primary-stream
\* chunk that itself holds both the success marker and the prompt token.
C23_MarkerAndPromptInOneChunk ==
    [][(RestartCommand /\ ResolvesSuccess)
          => /\ Delivers("stdout")
             /\ Includes(LastChunk, StartedMarker)
             /\ Includes(LastChunk, PromptToken)]_vars

\* C24: a service restart is never resolved successful while the buffer
\* accumulated at that moment holds a failure marker.
C24_NoSuccessWithFailureMarker ==
    [][(RestartCommand /\ ResolvesSuccess)
          => ~HasFailureMarker(commandOutput')]_vars

\* C25: whenever the no-response timer is armed, its duration is at most
\* the overall timeout less the safety buffer, and it is due no later than
\* the overall timer.
C25_NoResponseWithinBudget ==
    noResponseTimer # Off =>
        /\ RemainingTime(commandTimeout) <= commandTimeout - SafetyBufferMs
        /\ timeout # Off => noResponseTimer <= timeout

PromptWaitErrors == {"Connected but did not receive expected VOS CLI prompt (admin:)",
                     "Connected but received no data from server"}

\* A timer resolves the pending call: no chunk is delivered and neither the
\* shell channel nor the transport changes state
TimerSettles ==
    /\ Settles
    /\ received' = received
    /\ shell' = shell
    /\ connState' = connState

\* C26: when testConnection has its shell open and a timer ends the wait for
\* the prompt, the call resolves with the prompt-wait result: the
\* "did not receive expected VOS CLI prompt" error with the first 500
\* characters received, or "received no data" when nothing arrived.
C26_PromptWaitTerminates ==
    [][(op = "testConnection" /\ shell = "open" /\ TimerSettles)
          => /\ result'.error \in PromptWaitErrors
             /\ result' = PromptWaitResult]_vars

\* Some testConnection call has resolved with a prompt-wait error
PromptWaitReached == result.settled /\ result.error \in PromptWaitErrors

----------------------------------------------------------------------------
(* Properties of the step order inside requestCertificate (AcmeSpec)       *)

\* This step sends an authorization fetch
SendsAuthorizationFetch ==
    /\ Len(sent') = Len(sent) + 1
    /\ sent'[Len(sent')].kind = "getAuthorizations"

\* C27: an authorization fetch is sent only by the step in which the order
\* creation of the requestCertificate call in progress is answered with
\* success before its 15 s deadline; a call whose order creation fails or
\* times out ends without sending anything, and an abandoned request that
\* settles afterwards sends nothing either.
C27_FetchAfterOrderResolved ==
    [][/\ SendsAuthorizationFetch =>
            /\ call.method = "requestCertificate" /\ call.pc = "order"
            /\ elapsed < AcmeTicks(OrderTimeoutMs)
            /\ call'.method = "requestCertificate" /\ call'.pc = "authorizations"
       /\ (call.pc = "order" /\ call' = NoCall) => sent' = sent
       /\ (abandoned' # abandoned /\ ~RaceDecided) => sent' = sent
      ]_vars

\* C27 witness: the order creation timed out, the abandoned order has
\* completed since, and the order request is still the last one sent
C27_Witness ==
    /\ call = NoCall
    /\ outcome = Rejected("requestCertificate", TimeoutError("order"), "")
    /\ abandoned = {}
    /\ Len(sent) > 0
    /\ sent[Len(sent)].kind = "newOrder"

----------------------------------------------------------------------------
(* Properties of the directory selection (AcmeSpec)                        *)

----------------------------------------------------------------------------
(* Properties of the issuance flows (FlowSpec)                             *)

\* C28: every request a flow's calls send is signed with the account key
\* the flow loaded or created for its own domain, however the two flows
\* interleave.
C28_OwnAccountKey ==
    \A f \in Flows : \A i \in 1..Len(flowSent[f]) : flowSent[f][i].key = f

RequestKinds == {"newAccount", "newOrder", "getAuthorizations", "challengeReady",
                 "finalize", "getCertificate", "revoke"}

\* Requests of one kind sent by the calls of a flow
SentOfKind(f, kind) == { i \in 1..Len(flowSent[f]) : flowSent[f][i].kind = kind }

\* C30: a flow invokes each method once, and no invocation sends a request
\* of any kind more than once, whether its steps succeed, fail or time out.
C30_NoRetry ==
    \A f \in Flows : \A kind \in RequestKinds :
        Cardinality(SentOfKind(f, kind)) <= 1

\* C30 witness: one flow went through every method with every step
\* answered, the other stopped at a timed-out order creation
C30_Witness ==
    \E f, g \in Flows :
        /\ flowPc[f] = "revoked"
        /\ \A kind \in RequestKinds : Cardinality(SentOfKind(f, kind)) = 1
        /\ flowPc[g] = "timedOut"
        /\ Len(flowSent[g]) > 0
        /\ flowSent[g][Len(flowSent[g])].kind = "newOrder"

----------------------------------------------------------------------------
(* Properties of the call budgets (FlowFairSpec)                           *)

\* Flow f is inside createAccount, requestCertificate or finalizeCertificate
InBudgetedCall(f) ==
    flowPc[f] \in {"registering", "saving", "ordering", "authorizing",
                   "finalizing", "fetching"}

\* C31: a createAccount, requestCertificate or finalizeCertificate call in
\* progress eventually settles, with a result or a failure, also when the
\* ACME server never answers.
C31_SettlesWithinBudget ==
    \A f \in Flows : InBudgetedCall(f) ~> ~InBudgetedCall(f)

----------------------------------------------------------------------------
(* Properties of account persistence in createAccount (AcmeSpec)           *)

\* C32: the store changes only by the save step of a createAccount call,
\* for that call's domain; the save step is entered only by a registration
\* answered with success before its 30 s deadline; a call whose
\* registration fails or times out ends with the store unchanged, and an
\* abandoned registration that completes later changes neither the store
\* nor the call in progress.
C32_SaveAfterRegistration ==
    [][/\ store' # store =>
            /\ call.method = "createAccount" /\ call.pc = "save"
            /\ \A d \in Domains \ {call.domain} : store'[d] = store[d]
       /\ (call'.pc = "save" /\ call.pc # "save") =>
            /\ call.method = "createAccount" /\ call.pc = "register"
            /\ elapsed < AcmeTicks(AccountTimeoutMs)
       /\ (call.pc = "register" /\ call' = NoCall) => store' = store
       /\ (abandoned' # abandoned /\ ~RaceDecided) =>
            (store' = store /\ call' = call)
      ]_vars

\* C32 witness: the registration timed out, the abandoned registration has
\* succeeded on the server since, and nothing is saved
C32_Witness ==
    /\ call = NoCall
    /\ outcome = Rejected("createAccount", TimeoutError("register"), "")
    /\ abandoned = {}
    /\ \E i \in 1..Len(clients) : clients[i].hasUrl
    /\ \A d \in Domains : ~store[d].present

----------------------------------------------------------------------------
(* Properties of the inspector's degradation (InspSpec)                    *)

\* How a probe ends when its source cannot be parsed
ParseFailures == {"empty", "malformed", "threw"}

\* This step ends a probe whose source could not be parsed
ProbeFailsToParse ==
    /\ Len(yielded') = Len(yielded) + 1
    /\ yielded'[Len(yielded')] \in ParseFailures

\* C33: a probe whose peer certificate is empty, or whose parsing or
\* connecting throws, is followed by the probe of the next port, or by the
\* read of the configured subdirectory after the last port; a malformed
\* certificate.pem in the configured subdirectory is followed by the read of
\* the alternate one, whose result is returned; the call never rejects.
C33_ParseFailureDegrades ==
    [][/\ ProbeFailsToParse =>
            IF portIdx < Len(Ports)
            THEN /\ inspPc' = "probing"
                 /\ probed' = Append(probed, Ports[portIdx + 1])
            ELSE /\ readDirs' # <<>>
                 /\ readDirs'[1] = CertSubDir
       /\ (readDirs' # <<>> /\ files[CertSubDir] = "corrupt") =>
            /\ readDirs' = <<CertSubDir, AlternateCertSubDir>>
            /\ inspResult' = IF files[AlternateCertSubDir] = "valid"
                             THEN FileCertificate(AlternateCertSubDir)
                             ELSE NotFound
       /\ inspResult'.status # "rejected"
      ]_vars

\* C33 witness: an empty and a malformed peer certificate were met on the
\* way, the configured certificate.pem is malformed, and the alternate
\* subdirectory's certificate was returned
C33_Witness ==
    /\ inspPc = "done"
    /\ \E i, j \in 1..Len(yielded) : yielded[i] = "empty" /\ yielded[j] = "malformed"
    /\ files[CertSubDir] = "corrupt"
    /\ inspResult = FileCertificate(AlternateCertSubDir)

----------------------------------------------------------------------------
(* Properties of the live-first policy (InspSpec)                          *)

----------------------------------------------------------------------------
(* Properties of CertificateInfo (InfoSpec)                                *)

\* C35: for every CertificateInfo built, from a peer certificate or from a
\* file: isValid holds iff validFrom <= now <= validTo; daysUntilExpiry is
\* the floor of (validTo - now) / 86400000; it is negative iff
\* now > validTo; and isValid implies daysUntilExpiry >= 0.
C35_ValidityAndDays ==
    certInfo # NoInfo =>
        /\ certInfo.isValid <=> (infoValidFrom <= infoNow /\ infoNow <= infoValidTo)
        /\ certInfo.daysUntilExpiry * 86400000 <= infoValidTo - infoNow
        /\ infoValidTo - infoNow < (certInfo.daysUntilExpiry + 1) * 86400000
        /\ (certInfo.daysUntilExpiry < 0) <=> (infoNow > infoValidTo)
        /\ certInfo.isValid => certInfo.daysUntilExpiry >= 0

\* C35 witness: a certificate that expired one millisecond ago, read from a
\* file, is invalid with daysUntilExpiry -1
C35_Witness ==
    /\ certInfo.source = "file"
    /\ infoNow = infoValidTo + 1
    /\ ~certInfo.isValid
    /\ certInfo.daysUntilExpiry = -1

----------------------------------------------------------------------------
(* Properties of the returned order's domains (AcmeSpec)                   *)

\* C36: the domains list of every order returned by requestCertificate
\* holds no domain twice.
C36_DomainsDuplicateFree ==
    OrderReturned =>
        \A i, j \in 1..Len(outcome.domains) :
            outcome.domains[i] = outcome.domains[j] => i = j

----------------------------------------------------------------------------
(* Properties of the chunk boundaries (Spec)                               *)

\* The data handler's decision had everything received so far arrived as
\* one chunk
WholeVerdict == Completion(command, commandOutput', commandOutput')

\* C37: the success of a command operation depends on the text received,
\* not on its chunk boundaries: a chunk arriving on the primary stream of an
\* unsettled call resolves success exactly when the same text, had it
\* arrived as a single chunk at this moment, would resolve success.
C37_ChunkingIndependent ==
    [][(op \in CommandOps /\ ~result.settled /\ Delivers("stdout"))
          => (ResolvesSuccess <=> WholeVerdict = "success")]_vars

----------------------------------------------------------------------------
(* Properties of the command write (Spec)                                  *)

\* C38: a command operation writes to the shell only once, when the 5 s
\* timer armed at the opening of the shell channel is due, the channel is
\* open and the call is unresolved; and the no-response timer is armed only
\* with the command written.
C38_CommandWrittenOnce ==
    [][/\ (op \in CommandOps /\ written' # written) =>
            /\ written = <<>>
            /\ written' = <<command \o LineTerminator>>
            /\ Due(graceTimer)
            /\ shell = "open"
            /\ ~resolved
            /\ ~result.settled
       /\ (op \in CommandOps /\ noResponseTimer' # Off) => written' # <<>>
      ]_vars

\* C38 witness: the shell channel closed during the grace period, the 5 s
\* timer has fired since, and nothing was written and no timer armed
C38_Witness ==
    /\ op \in CommandOps
    /\ shell = "closed"
    /\ now >= Ticks(GraceMs)
    /\ graceTimer = Off
    /\ written = <<>>
    /\ noResponseTimer = Off

----------------------------------------------------------------------------
(* Properties of the SSHClient instance (InstSpec)                         *)

\* The transport is ready, was not asked to end and has not closed
Usable(i) == transports[i].state = "ready" /\ ~transports[i].ended

\* C39: isClientConnected() is true exactly when the most recently created
\* transport is ready and neither ended nor closed, and the flag is set only
\* while this.client is not null.
C39_FlagDescribesCurrentTransport ==
    /\ isClientConnected <=> (transports # <<>> /\ Usable(Len(transports)))
    /\ isConnected => sshClient # 0

----------------------------------------------------------------------------
(* Frame of loadAccount (AcmeSpec)                                         *)

\* This step is a whole loadAccount call that returns null
LoadReturnsNull ==
    /\ call = NoCall /\ call' = NoCall
    /\ nCalls' = nCalls + 1
    /\ outcome' = Returned("loadAccount", <<>>, <<>>)

\* C40: a loadAccount call that returns null leaves this.client and every
\* library client as they were: no client stays no client, a client bound
\* to an account stays that client.
C40_NullLoadKeepsClient ==
    [][LoadReturnsNull => (client' = client /\ clients' = clients)]_vars

\* C40 witness: the instance was bound to an account by its first call and
\* is still bound to it after a second call, a loadAccount that returned null
C40_Witness ==
    /\ nCalls = 2
    /\ call = NoCall
    /\ outcome = Returned("loadAccount", <<>>, <<>>)
    /\ client = 1
    /\ Len(clients) = 1
    /\ clients[1].hasUrl

====
